---- MODULE Spec2Model ----
(***************************************************************************)
(* Model of the large-audio chunking pipeline of Audio-to-text:            *)
(*   - services/audioUtils (src/unnamed/part_003): processLargeAudioFile,  *)
(*     the chunk loop and the size of an encoded chunk;                    *)
(*   - services/geminiService.ts: retryOperation, transcribeAudio,         *)
(*     unifyTranscriptStyle;                                               *)
(*   - App.tsx (second App, lines 585-964): handleFileSelect, loadRecord;  *)
(*   - services/storageService.ts: saveRecord, findRecordForFile.          *)
(*                                                                         *)
(* Text is a sequence of one-character strings, so that String.length is   *)
(* Len and + is \o.  A remote error is kept as its message together with   *)
(* the set of keywords its lower-cased toString() contains.                *)
(***************************************************************************)
EXTENDS Integers, Sequences, FiniteSets, TLC

VARIABLES
    pcmLength,      \* audioUtils: pcmData.length inside processLargeAudioFile
    loopI,          \* audioUtils: the loop variable i of the chunk loop
    loopChunks,     \* audioUtils: the local array chunks
    loopPc,         \* audioUtils: "loop" while the for loop runs, "returned" after
    transcription,  \* App: the TranscriptionState held by useState
    activeRecordId, \* App: activeRecordId
    archive,        \* storageService: the list stored under STORAGE_KEY
    now,            \* the value Date.now() returns
    frames,         \* the activation record of handleFileSelect, per run
    retry,          \* geminiService: one call of retryOperation, taken alone
    store,          \* storageService: history of the calls made on the archive
    wav,            \* audioUtils: one call of encodeWAV, taken alone
    texts,          \* geminiService: one call of translateText, taken alone
    ui              \* the whole App component: its state, its runs and its requests

vars == <<pcmLength, loopI, loopChunks, loopPc,
          transcription, activeRecordId, archive, now, frames,
          retry, store, wav, texts, ui>>

splitVars == <<pcmLength, loopI, loopChunks, loopPc>>
appVars == <<transcription, activeRecordId, archive, now, frames>>
restVars == <<retry, store, wav, texts, ui>>
runVars == <<transcription, activeRecordId, now, frames>>
retryVars == <<retry>>
storeVars == <<store>>
wavVars == <<wav>>
textVars == <<texts>>
uiVars == <<ui>>

----------------------------------------------------------------------------
(* Bounds of the model *)

\* the longest input has MaxFullChunks full windows plus a remainder
MaxFullChunks == 2

\* Date.now() stays within 0..MaxClock
MaxClock == 1

----------------------------------------------------------------------------
(* Generic helpers *)

Min(a, b) == IF a < b THEN a ELSE b

Range(s) == {s[k] : k \in 1..Len(s)}

\* null, and a value that is present
Null == <<>>

Some(x) == <<x>>

\* Array.prototype.slice(0, n)
Slice0(s, n) == SubSeq(s, 1, Min(n, Len(s)))

----------------------------------------------------------------------------
(* services/audioUtils: constants and sizes *)

NUM_CHANNELS == 1

SAMPLE_RATE == 16000

BIT_DEPTH == 16

\* length of the ArrayBuffer encodeWAV allocates for samples.length = n
encodeWAVByteLength(n) == 44 + n * 2

\* length of window.btoa's output for a binary string of n bytes
arrayBufferToBase64Length(n) == 4 * ((n + 2) \div 3)

\* "the 20MB API payload limit" the chunking is written against
API_PAYLOAD_LIMIT == 20 * 1000 * 1000

SAMPLES_PER_CHUNK_600 == 600 * SAMPLE_RATE

SAMPLES_PER_CHUNK == 180 * SAMPLE_RATE

\* const end = Math.min(i + SAMPLES_PER_CHUNK, pcmData.length)
ChunkEnd_NoMin(i, len) == i + SAMPLES_PER_CHUNK

ChunkEnd(i, len) == Min(i + SAMPLES_PER_CHUNK, len)

\* one pushed element of chunks: the slice [start, end) of pcmData, the byte
\* length of its WAV buffer and the length of its base64 string
MakeChunk(start, end) ==
    [start   |-> start,
     end     |-> end,
     samples |-> end - start,
     wavBytes |-> encodeWAVByteLength(end - start),
     base64Length |-> arrayBufferToBase64Length(encodeWAVByteLength(end - start))]

\* the i += SAMPLES_PER_CHUNK of the for loop
NextI_Overlap(i) == i + SAMPLES_PER_CHUNK - 1

NextI(i) == i + SAMPLES_PER_CHUNK

\* one iteration of the for loop, on the pair (i, chunks)
ChunkLoopBody(i, chunks, len) ==
    [i |-> NextI(i), chunks |-> Append(chunks, MakeChunk(i, ChunkEnd(i, len)))]

\* the whole for loop: for (let i = 0; i < pcmData.length; i += SAMPLES_PER_CHUNK)
RECURSIVE ChunkLoop(_, _, _)
ChunkLoop(i, chunks, len) ==
    IF i < len
    THEN LET s == ChunkLoopBody(i, chunks, len) IN ChunkLoop(s.i, s.chunks, len)
    ELSE chunks

\* the chunks processLargeAudioFile returns for pcmData.length = len
SplitChunks(len) == ChunkLoop(0, <<>>, len)

----------------------------------------------------------------------------
(* Inputs *)

\* lengths of the trailing partial window that are tried
Remainders ==
    {0, 1, 2, SAMPLE_RATE, 60 * SAMPLE_RATE, 120 * SAMPLE_RATE, SAMPLES_PER_CHUNK \div 2,
     SAMPLES_PER_CHUNK - SAMPLE_RATE, SAMPLES_PER_CHUNK - 2, SAMPLES_PER_CHUNK - 1}

\* pcmData.length: k full windows plus a remainder
SampleCounts ==
    {k * SAMPLES_PER_CHUNK + r : k \in 0..MaxFullChunks, r \in Remainders}

\* a 7-minute recording at 16 kHz
SevenMinutes == 7 * 60 * SAMPLE_RATE

----------------------------------------------------------------------------
(* Text *)

NL == "\n"

\* a text of exactly 50 characters, the shortest unifyTranscriptStyle sends out
LongText == [k \in 1..50 |-> "x"]

\* what response.text of a remote call can be; <<>> is an empty or missing text
ResponseTexts == {<<>>, <<"A">>, <<"B">>, LongText}

----------------------------------------------------------------------------
(* services/geminiService.ts *)

\* errors a remote call can reject with: the message, and which of the
\* substrings retryOperation looks for occur in error.toString().toLowerCase()
ErrorSamples ==
    {[message |-> "429 Too Many Requests", contains |-> {"429"}],
     [message |-> "Quota exceeded and 500", contains |-> {"quota", "500"}],
     [message |-> "500 Internal", contains |-> {"500"}],
     [message |-> "Deadline exceeded", contains |-> {"deadline"}],
     [message |-> "Failed to fetch", contains |-> {}],
     [message |-> "", contains |-> {}]}

\* new Error("QUOTA_EXHAUSTED")
QuotaError == [message |-> "QUOTA_EXHAUSTED", contains |-> {"quota"}]

\* retryOperation(operation, retries = 3, delay = 2000)
DEFAULT_RETRIES == 3

DEFAULT_DELAY == 2000

\* errString.includes("429") || errString.includes("quota")
IsQuota(error) == "429" \in error.contains \/ "quota" \in error.contains

\* retries > 0 && (includes("500") || includes("timeout") || includes("deadline"))
ShouldRetry_Always(error, retries) ==
    \/ "500" \in error.contains
    \/ "timeout" \in error.contains
    \/ "deadline" \in error.contains

\* the test of the retries taken as retries >= 0
ShouldRetry_Inclusive(error, retries) ==
    /\ retries >= 0
    /\ \/ "500" \in error.contains
       \/ "timeout" \in error.contains
       \/ "deadline" \in error.contains

ShouldRetry(error, retries) ==
    /\ retries > 0
    /\ \/ "500" \in error.contains
       \/ "timeout" \in error.contains
       \/ "deadline" \in error.contains

\* the catch block of retryOperation: what it does with a rejected operation
retryOperation(error, retries) ==
    IF IsQuota(error) THEN [do |-> "throw", error |-> QuotaError]
    ELSE IF ShouldRetry(error, retries) THEN [do |-> "retry", error |-> error]
    ELSE [do |-> "throw", error |-> error]

\* unifyTranscriptStyle: if (text.length < 50) return text, without a remote call
UNIFY_MIN_LENGTH == 50

unifyIsLocal(text) == Len(text) < UNIFY_MIN_LENGTH

\* unifyTranscriptStyle: return response.text || text
unifyResult(responseText, text) == IF responseText = <<>> THEN text ELSE responseText

----------------------------------------------------------------------------
(* services/storageService.ts *)

MAX_RECORDS == 50

\* archive.filter(r => r.id !== id)
RECURSIVE RemoveId(_, _)
RemoveId(list, id) ==
    IF list = <<>> THEN <<>>
    ELSE IF Head(list).id # id THEN <<Head(list)>> \o RemoveId(Tail(list), id)
    ELSE RemoveId(Tail(list), id)

\* saveRecord without its filter
saveRecord_NoFilter(list, record) == Slice0(<<record>> \o list, MAX_RECORDS)

\* saveRecord adding the record at the end
saveRecord_AtEnd(list, record) ==
    Slice0(RemoveId(list, record.id) \o <<record>>, MAX_RECORDS)

\* the list saveRecord stores: [record, ...filtered].slice(0, MAX_RECORDS)
saveRecord(list, record) ==
    Slice0(<<record>> \o RemoveId(list, record.id), MAX_RECORDS)

\* the list deleteRecord stores and returns
deleteRecord(list, id) == RemoveId(list, id)

Abs(x) == IF x < 0 THEN -x ELSE x

\* the tolerance of findRecordForFile taken as inclusive
MatchesFile_Inclusive(r, file) ==
    /\ r.fileName = file.name
    /\ r.fileSize = file.size
    /\ Abs(r.lastModified - file.lastModified) <= 1000

\* the predicate of findRecordForFile
MatchesFile(r, file) ==
    /\ r.fileName = file.name
    /\ r.fileSize = file.size
    /\ Abs(r.lastModified - file.lastModified) < 1000

\* archive.find(...): the first matching record, or undefined (Null)
RECURSIVE findRecordForFile(_, _)
findRecordForFile(list, file) ==
    IF list = <<>> THEN Null
    ELSE IF MatchesFile(Head(list), file) THEN Some(Head(list))
    ELSE findRecordForFile(Tail(list), file)

----------------------------------------------------------------------------
(* App.tsx: handleFileSelect and loadRecord *)

\* the files the user can select; the second is the first one touched 999 ms later
Files ==
    {[name |-> "a.mp3", size |-> 10, lastModified |-> 5000],
     [name |-> "a.mp3", size |-> 10, lastModified |-> 5999]}

\* the runs of handleFileSelect whose activation records are modelled
RunIds == {"run1"}

\* pcmData.length of the files that are transcribed
RunSampleCounts ==
    {k * SAMPLES_PER_CHUNK + r : k \in 0..MaxFullChunks, r \in {0, 60 * SAMPLE_RATE}}

\* fullTranscript += part + "\n"
AppendPart_Prepend(fullTranscript, part) == part \o <<NL>> \o fullTranscript

AppendPart(fullTranscript, part) == fullTranscript \o part \o <<NL>>

\* Math.round(x / y) for x >= 0, y > 0
MathRound(x, y) == (2 * x + y) \div (2 * y)

\* Math.round(((i + 1) / chunks.length) * 100)
Progress_OffByOne(i, n) == MathRound(i * 100, n)

Progress(i, n) == MathRound((i + 1) * 100, n)

\* the chunk indexes whose transcribeAudio call is started when the loop
\* reaches index i, in order: the call is awaited, so only chunk i
AwaitedCalls_All(i, n) == [k \in 1..(n - i) |-> i + k - 1]

AwaitedCalls(i, n) == <<i>>

\* err.message || "Transcription process failed"
ErrorMessage(error) ==
    IF error.message # "" THEN error.message ELSE "Transcription process failed"

\* the ArchiveRecord built at lines 699-708
NewRecord(file, unified, t) ==
    [id |-> <<file.name, t>>,
     fileName |-> file.name,
     fileSize |-> file.size,
     lastModified |-> file.lastModified,
     transcription |-> unified,
     translations |-> <<>>,
     createdAt |-> t]

\* the value useState starts transcription with
InitialTranscription ==
    [text |-> <<>>, isTranscribing |-> FALSE, progress |-> 0, error |-> Null]

\* an activation record before handleFileSelect is called
IdleFrame ==
    [pc |-> "idle",
     file |-> Null,            \* the parameter file
     samples |-> Null,         \* the length of pcmData, once the file is decoded
     chunks |-> <<>>,          \* const chunks
     i |-> 0,                  \* the loop variable i
     fullTranscript |-> <<>>,  \* let fullTranscript
     retries |-> 0,            \* retryOperation's parameter retries
     delay |-> 0,              \* retryOperation's parameter delay
     inFlight |-> {},          \* remote calls started and not yet settled
     dispatched |-> {},        \* history: every remote call started
     answers |-> <<>>,         \* history: every text a transcription call returned
     emitted |-> <<>>,         \* history: every progress value passed to setTranscription
     waits |-> <<>>,           \* history: the delays waited by this retryOperation
     failure |-> Null,         \* history: the rejection that ended the run
     archiveAtStart |-> <<>>]  \* history: the archive when the run started

\* what localStorage holds when the page is opened: nothing, or the record
\* of a recording transcribed in an earlier visit
StoredArchives ==
    {<<>>,
     <<[id |-> <<"b.wav", 0>>, fileName |-> "b.wav", fileSize |-> 20,
        lastModified |-> 7000, transcription |-> <<"B", NL>>,
        translations |-> <<>>, createdAt |-> 0]>>}

AppInit ==
    /\ transcription = InitialTranscription
    /\ activeRecordId = Null
    /\ archive \in StoredArchives
    /\ now = 0
    /\ frames = [r \in RunIds |-> IdleFrame]

\* the page before any file is selected, with nothing stored
AppIdle ==
    /\ transcription = InitialTranscription
    /\ activeRecordId = Null
    /\ archive = <<>>
    /\ now = 0
    /\ frames = [r \in RunIds |-> IdleFrame]

SplitIdle ==
    /\ pcmLength = 0
    /\ loopI = 0
    /\ loopChunks = <<>>
    /\ loopPc = "returned"

\* retryOperation has not been called
RetryIdle ==
    retry = [pc |-> "idle", version |-> "none", retries |-> 0, delay |-> 0,
             budget |-> 0, calls |-> 0, waits |-> <<>>, errors |-> <<>>,
             thrown |-> Null]

\* no call of the storage service made yet
StoreIdle ==
    store = [ops |-> 0, last |-> Null, stamp |-> <<>>, query |-> Null, found |-> Null]

\* encodeWAV not called
WavIdle ==
    wav = [pc |-> "idle", samples |-> <<>>, bytes |-> <<>>, step |-> 0,
           base64 |-> <<>>]

\* translateText not called
TextIdle == texts = [pc |-> "idle"]

\* the App component of the last section is not mounted
UiIdle == ui = [pc |-> "idle"]

RestIdle == RetryIdle /\ StoreIdle /\ WavIdle /\ TextIdle /\ UiIdle

----------------------------------------------------------------------------
(* The run of handleFileSelect, one action per turn of the event loop.     *)
(* Code that runs between two awaits runs in one action; an await of an    *)
(* already settled promise does not let a user event in, so it does not    *)
(* end the action.                                                         *)

\* the error processLargeAudioFile throws from its catch block
DecodeError == [message |-> "Audio decoding failed", contains |-> {}]

\* what the browser rejects or throws with inside processLargeAudioFile
EncodingError == [message |-> "EncodingError", contains |-> {}]

NotSupportedError == [message |-> "NotSupportedError", contains |-> {}]

RenderingError == [message |-> "rendering failed", contains |-> {}]

\* the catch block of processLargeAudioFile: whatever was caught, one fixed error
ProcessFailure(f, stage, error) ==
    [f EXCEPT !.failure = Some([stage |-> stage, seg |-> 0, error |-> error,
                                retries |-> 0, thrown |-> DecodeError])]

\* new OfflineAudioContext(1, length, 16000) throws for a length of 0
OfflineContextThrows_Never(len) == FALSE

OfflineContextThrows(len) == len = 0

TranscribeCall(seg) == [kind |-> "transcribe", seg |-> seg]

UnifyCall == [kind |-> "unify", seg |-> 0]

\* operation() is called inside retryOperation: the calls go out
StartCalls(f, pc, calls) ==
    [f EXCEPT !.pc = pc,
              !.inFlight = @ \cup Range(calls),
              !.dispatched = @ \cup Range(calls)]

\* a first call of retryOperation, with its default parameters
FirstAttempt(f) ==
    [f EXCEPT !.retries = DEFAULT_RETRIES, !.delay = DEFAULT_DELAY, !.waits = <<>>]

\* return retryOperation(operation, retries - 1, delay * 2)
NextAttempt(f) == [f EXCEPT !.retries = @ - 1, !.delay = @ * 2]

\* the catch block of handleFileSelect (line 713)
Abort_StillTranscribing(r, f, error) ==
    /\ transcription' = [transcription EXCEPT !.error = Some(ErrorMessage(error))]
    /\ frames' = [frames EXCEPT ![r] = [f EXCEPT !.pc = "aborted", !.inFlight = {}]]
    /\ UNCHANGED <<archive, activeRecordId, now>>

\* the catch block saving what has been transcribed so far
Abort_SavesPartial(r, f, error) ==
    /\ transcription' = [transcription EXCEPT !.isTranscribing = FALSE,
                                              !.error = Some(ErrorMessage(error))]
    /\ frames' = [frames EXCEPT ![r] = [f EXCEPT !.pc = "aborted", !.inFlight = {}]]
    /\ archive' = saveRecord(archive, NewRecord(f.file[1], f.fullTranscript, now))
    /\ UNCHANGED <<activeRecordId, now>>

Abort(r, f, error) ==
    /\ transcription' = [transcription EXCEPT !.isTranscribing = FALSE,
                                              !.error = Some(ErrorMessage(error))]
    /\ frames' = [frames EXCEPT ![r] = [f EXCEPT !.pc = "aborted", !.inFlight = {}]]
    /\ UNCHANGED <<archive, activeRecordId, now>>

\* Complete forgetting isTranscribing: false
Complete_StillTranscribing(r, f, tr, unified, t) ==
    LET record == NewRecord(f.file[1], unified, t)
    IN  /\ transcription' = [tr EXCEPT !.text = unified, !.progress = 100]
        /\ archive' = saveRecord(archive, record)
        /\ activeRecordId' = Some(record.id)
        /\ now' = t
        /\ frames' = [frames EXCEPT ![r] =
                        [f EXCEPT !.pc = "done", !.emitted = Append(@, 100)]]

\* lines 697-711, after unifyTranscriptStyle returned unified; tr is the
\* transcription state the pending updates of this turn lead to
Complete(r, f, tr, unified, t) ==
    LET record == NewRecord(f.file[1], unified, t)
    IN  /\ transcription' = [tr EXCEPT !.text = unified,
                                       !.isTranscribing = FALSE,
                                       !.progress = 100]
        /\ archive' = saveRecord(archive, record)
        /\ activeRecordId' = Some(record.id)
        /\ now' = t
        /\ frames' = [frames EXCEPT ![r] =
                        [f EXCEPT !.pc = "done", !.emitted = Append(@, 100)]]

\* the head of the for loop at index f.i and, past it, the call of
\* unifyTranscriptStyle (lines 686-696)
ContinueLoop(r, f, tr, t) ==
    IF f.i < Len(f.chunks)
    THEN /\ frames' = [frames EXCEPT ![r] =
                FirstAttempt(StartCalls(f, "transcribe",
                    [k \in 1..Len(AwaitedCalls(f.i, Len(f.chunks))) |->
                        TranscribeCall(AwaitedCalls(f.i, Len(f.chunks))[k])]))]
         /\ transcription' = tr
         /\ UNCHANGED <<archive, activeRecordId, now>>
    ELSE IF unifyIsLocal(f.fullTranscript)
    THEN Complete(r, f, tr, f.fullTranscript, t)
    ELSE /\ frames' = [frames EXCEPT ![r] =
                FirstAttempt(StartCalls(f, "unify", <<UnifyCall>>))]
         /\ transcription' = tr
         /\ UNCHANGED <<archive, activeRecordId, now>>

\* the uploader is disabled while transcribing (App.tsx line 871)
UploaderEnabled == ~transcription.isTranscribing

Returned(f) == f.pc \in {"idle", "done", "aborted", "loaded"}

\* loadRecord (lines 717-723)
loadRecord(record) ==
    /\ activeRecordId' = Some(record.id)
    /\ transcription' = [text |-> record.transcription, isTranscribing |-> FALSE,
                         progress |-> 100, error |-> Null]

\* handleFileSelect, lines 670-675: the file has an archived record
SelectArchivedFile(r, file) ==
    /\ UploaderEnabled
    /\ Returned(frames[r])
    /\ findRecordForFile(archive, file) # Null
    /\ loadRecord(findRecordForFile(archive, file)[1])
    /\ frames' = [frames EXCEPT ![r] =
            [IdleFrame EXCEPT !.pc = "loaded", !.file = Some(file),
                              !.archiveAtStart = archive]]
    /\ UNCHANGED <<archive, now>>
    /\ UNCHANGED <<splitVars, restVars>>

\* handleFileSelect, lines 670-684, up to the first await of processLargeAudioFile
SelectNewFile(r, file) ==
    /\ UploaderEnabled
    /\ Returned(frames[r])
    /\ findRecordForFile(archive, file) = Null
    /\ activeRecordId' = Null
    /\ transcription' = [text |-> <<>>, isTranscribing |-> TRUE,
                         progress |-> 0, error |-> Null]
    /\ frames' = [frames EXCEPT ![r] =
            [IdleFrame EXCEPT !.pc = "decode", !.file = Some(file),
                              !.archiveAtStart = archive]]
    /\ UNCHANGED <<archive, now>>
    /\ UNCHANGED <<splitVars, restVars>>

\* decodeAudio resolves with a buffer that resamples to len samples;
\* new OfflineAudioContext(1, 0, 16000) throws, anything longer starts rendering
DecodeResolved(r, len) ==
    LET f == [frames[r] EXCEPT !.samples = Some(len)]
    IN  /\ frames[r].pc = "decode"
        /\ IF OfflineContextThrows(len)
           THEN Abort(r, ProcessFailure(f, "resample", NotSupportedError),
                      DecodeError)
           ELSE /\ frames' = [frames EXCEPT ![r] = [f EXCEPT !.pc = "resample"]]
                /\ UNCHANGED <<transcription, archive, activeRecordId, now>>
        /\ UNCHANGED <<splitVars, restVars>>

\* file.arrayBuffer() or decodeAudioData rejects
DecodeRejected(r) ==
    /\ frames[r].pc = "decode"
    /\ Abort(r, ProcessFailure(frames[r], "decode", EncodingError), DecodeError)
    /\ UNCHANGED <<splitVars, restVars>>

\* startRendering resolves: the chunk loop runs, processLargeAudioFile returns,
\* and handleFileSelect enters its own loop (lines 105-113, 684-687)
ResampleResolved(r, t) ==
    /\ frames[r].pc = "resample"
    /\ t \in now..MaxClock
    /\ ContinueLoop(r, [frames[r] EXCEPT !.chunks = SplitChunks(frames[r].samples[1])],
                    transcription, t)
    /\ UNCHANGED <<splitVars, restVars>>

\* startRendering rejects
ResampleRejected(r) ==
    /\ frames[r].pc = "resample"
    /\ Abort(r, ProcessFailure(frames[r], "resample", RenderingError), DecodeError)
    /\ UNCHANGED <<splitVars, restVars>>

\* the transcription call of chunk i resolves with response.text = text
\* (lines 55, 687-693, then the loop head again)
SegmentResolved(r, text, t) ==
    LET f == frames[r]
        n == Len(f.chunks)
        full == AppendPart(f.fullTranscript, text)
        f1 == [f EXCEPT !.inFlight = @ \ {TranscribeCall(f.i)},
                        !.answers = Append(@, [seg |-> f.i, text |-> text]),
                        !.fullTranscript = full,
                        !.emitted = Append(@, Progress(f.i, n)),
                        !.i = @ + 1]
        tr1 == [transcription EXCEPT !.text = full, !.progress = Progress(f.i, n)]
    IN  /\ f.pc = "transcribe"
        /\ TranscribeCall(f.i) \in f.inFlight
        /\ t \in now..MaxClock
        /\ ContinueLoop(r, f1, tr1, t)
        /\ UNCHANGED <<splitVars, restVars>>

\* the transcription call of chunk i rejects and retryOperation waits to retry
SegmentRetry(r, error) ==
    LET f == frames[r]
    IN  /\ f.pc = "transcribe"
        /\ TranscribeCall(f.i) \in f.inFlight
        /\ retryOperation(error, f.retries).do = "retry"
        /\ frames' = [frames EXCEPT ![r] =
                [f EXCEPT !.pc = "backoff",
                          !.inFlight = @ \ {TranscribeCall(f.i)},
                          !.waits = Append(@, f.delay)]]
        /\ UNCHANGED <<transcription, archive, activeRecordId, now>>
        /\ UNCHANGED <<splitVars, restVars>>

\* the transcription call of chunk i rejects and retryOperation throws
SegmentThrow(r, error) ==
    LET f == frames[r]
        thrown == retryOperation(error, f.retries).error
    IN  /\ f.pc = "transcribe"
        /\ TranscribeCall(f.i) \in f.inFlight
        /\ retryOperation(error, f.retries).do = "throw"
        /\ Abort(r, [f EXCEPT !.failure =
                        Some([stage |-> "transcribe", seg |-> f.i, error |-> error,
                              retries |-> f.retries, thrown |-> thrown])],
                 thrown)
        /\ UNCHANGED <<splitVars, restVars>>

\* the timer of retryOperation fires: the operation is called again
BackoffDone(r) ==
    LET f == frames[r]
    IN  /\ f.pc = "backoff"
        /\ frames' = [frames EXCEPT ![r] =
                NextAttempt(StartCalls(f, "transcribe", <<TranscribeCall(f.i)>>))]
        /\ UNCHANGED <<transcription, archive, activeRecordId, now>>
        /\ UNCHANGED <<splitVars, restVars>>

\* the call of unifyTranscriptStyle resolves with response.text = text
UnifyResolved(r, text, t) ==
    LET f == frames[r]
    IN  /\ f.pc = "unify"
        /\ UnifyCall \in f.inFlight
        /\ t \in now..MaxClock
        /\ Complete(r, [f EXCEPT !.inFlight = @ \ {UnifyCall}], transcription,
                    unifyResult(text, f.fullTranscript), t)
        /\ UNCHANGED <<splitVars, restVars>>

UnifyRetry(r, error) ==
    LET f == frames[r]
    IN  /\ f.pc = "unify"
        /\ UnifyCall \in f.inFlight
        /\ retryOperation(error, f.retries).do = "retry"
        /\ frames' = [frames EXCEPT ![r] =
                [f EXCEPT !.pc = "unifyBackoff",
                          !.inFlight = @ \ {UnifyCall},
                          !.waits = Append(@, f.delay)]]
        /\ UNCHANGED <<transcription, archive, activeRecordId, now>>
        /\ UNCHANGED <<splitVars, restVars>>

UnifyThrow(r, error) ==
    LET f == frames[r]
        thrown == retryOperation(error, f.retries).error
    IN  /\ f.pc = "unify"
        /\ UnifyCall \in f.inFlight
        /\ retryOperation(error, f.retries).do = "throw"
        /\ Abort(r, [f EXCEPT !.failure =
                        Some([stage |-> "unify", seg |-> 0, error |-> error,
                              retries |-> f.retries, thrown |-> thrown])],
                 thrown)
        /\ UNCHANGED <<splitVars, restVars>>

UnifyBackoffDone(r) ==
    LET f == frames[r]
    IN  /\ f.pc = "unifyBackoff"
        /\ frames' = [frames EXCEPT ![r] =
                NextAttempt(StartCalls(f, "unify", <<UnifyCall>>))]
        /\ UNCHANGED <<transcription, archive, activeRecordId, now>>
        /\ UNCHANGED <<splitVars, restVars>>

Init == AppInit /\ SplitIdle /\ RestIdle

Next ==
    \/ \E r \in RunIds, file \in Files : SelectArchivedFile(r, file)
    \/ \E r \in RunIds, file \in Files : SelectNewFile(r, file)
    \/ \E r \in RunIds, len \in RunSampleCounts : DecodeResolved(r, len)
    \/ \E r \in RunIds : DecodeRejected(r)
    \/ \E r \in RunIds, t \in 0..MaxClock : ResampleResolved(r, t)
    \/ \E r \in RunIds : ResampleRejected(r)
    \/ \E r \in RunIds, text \in ResponseTexts, t \in 0..MaxClock :
            SegmentResolved(r, text, t)
    \/ \E r \in RunIds, error \in ErrorSamples : SegmentRetry(r, error)
    \/ \E r \in RunIds, error \in ErrorSamples : SegmentThrow(r, error)
    \/ \E r \in RunIds : BackoffDone(r)
    \/ \E r \in RunIds, text \in ResponseTexts, t \in 0..MaxClock :
            UnifyResolved(r, text, t)
    \/ \E r \in RunIds, error \in ErrorSamples : UnifyRetry(r, error)
    \/ \E r \in RunIds, error \in ErrorSamples : UnifyThrow(r, error)
    \/ \E r \in RunIds : UnifyBackoffDone(r)

Spec == Init /\ [][Next]_vars

----------------------------------------------------------------------------
(* The chunk loop of processLargeAudioFile, one iteration per step *)

SplitInit ==
    /\ pcmLength \in SampleCounts
    /\ loopI = 0
    /\ loopChunks = <<>>
    /\ loopPc = "loop"
    /\ AppIdle
    /\ RestIdle

\* one iteration of the for loop (lines 105-111)
ChunkIteration ==
    /\ loopPc = "loop"
    /\ loopI < pcmLength
    /\ LET s == ChunkLoopBody(loopI, loopChunks, pcmLength)
       IN  /\ loopI' = s.i
           /\ loopChunks' = s.chunks
    /\ UNCHANGED <<pcmLength, loopPc>>
    /\ UNCHANGED <<appVars, restVars>>

\* the loop condition fails: return chunks (line 113)
ChunkReturn ==
    /\ loopPc = "loop"
    /\ ~(loopI < pcmLength)
    /\ loopPc' = "returned"
    /\ UNCHANGED <<pcmLength, loopI, loopChunks>>
    /\ UNCHANGED <<appVars, restVars>>

SplitNext == ChunkIteration \/ ChunkReturn

SpecSplit == SplitInit /\ [][SplitNext]_vars

----------------------------------------------------------------------------
(* Properties of the chunk splitter, checked under SpecSplit *)

\* the chunks are laid end to end from sample 0, none reaching into another
ChunksContiguous(chunks) ==
    /\ (Len(chunks) > 0 => chunks[1].start = 0)
    /\ \A k \in 1..(Len(chunks) - 1) : chunks[k].end = chunks[k + 1].start
    /\ \A j, k \in 1..Len(chunks) : j < k => chunks[j].end <= chunks[k].start
    /\ \A k \in 1..Len(chunks) : chunks[k].start <= chunks[k].end

\* sample indexes around every window boundary and around the end of the input
ProbeSamples ==
    {k * SAMPLES_PER_CHUNK + d : k \in 0..(MaxFullChunks + 2), d \in {-1, 0, 1}}
        \cup {pcmLength - 1, pcmLength, pcmLength + 1}

\* the number of chunks whose range [start, end) holds sample p
Holders(chunks, p) ==
    Cardinality({k \in 1..Len(chunks) : chunks[k].start <= p /\ p < chunks[k].end})

\* C1: the sample ranges of the chunks start at 0, each ends where the next
\* starts, no two overlap, and once the loop has returned the last one ends at
\* N, so that every sample of [0, N) lies in exactly one chunk and no sample
\* outside [0, N) lies in any.
C1_Partition ==
    /\ ChunksContiguous(loopChunks)
    /\ loopPc = "returned" =>
        /\ IF loopChunks = <<>> THEN pcmLength = 0
           ELSE loopChunks[Len(loopChunks)].end = pcmLength
        /\ \A p \in ProbeSamples :
               Holders(loopChunks, p) = IF 0 <= p /\ p < pcmLength THEN 1 ELSE 0

C1_Witness ==
    /\ loopPc = "returned"
    /\ Len(loopChunks) = 3
    /\ pcmLength % SAMPLES_PER_CHUNK # 0

\* C2: the loop returns floor(N / W) chunks of W samples, followed by one chunk
\* of N mod W samples exactly when N is not a multiple of W; no chunk is empty
\* or reaches past the input; seven minutes at 16 kHz give chunks of 180 s,
\* 180 s and 60 s.
C2_ChunkCount ==
    loopPc = "returned" =>
        LET W == SAMPLES_PER_CHUNK
            full == pcmLength \div W
            rest == pcmLength % W
        IN  /\ Len(loopChunks) = full + (IF rest # 0 THEN 1 ELSE 0)
            /\ \A k \in 1..full : loopChunks[k].samples = W
            /\ rest # 0 => loopChunks[full + 1].samples = rest
            /\ \A k \in 1..Len(loopChunks) :
                    /\ loopChunks[k].samples > 0
                    /\ loopChunks[k].samples = loopChunks[k].end - loopChunks[k].start
                    /\ loopChunks[k].end <= pcmLength
            /\ pcmLength = SevenMinutes =>
                    [k \in 1..Len(loopChunks) |-> loopChunks[k].samples]
                        = <<180 * 16000, 180 * 16000, 60 * 16000>>

C2_Witness ==
    /\ loopPc = "returned"
    /\ pcmLength = SevenMinutes
    /\ Len(loopChunks) = 3

\* C3: the base64 string of every chunk (a WAV buffer of 44 bytes plus 2 bytes
\* per sample, four characters for every three bytes) is no longer than the
\* payload limit the chunking is written against.
C3_SizeBudget ==
    \A k \in 1..Len(loopChunks) :
        /\ loopChunks[k].wavBytes = 44 + 2 * (loopChunks[k].end - loopChunks[k].start)
        /\ loopChunks[k].base64Length * 3 >= loopChunks[k].wavBytes * 4
        /\ loopChunks[k].base64Length <= API_PAYLOAD_LIMIT

C3_Witness ==
    \E k \in 1..Len(loopChunks) : loopChunks[k].samples = 180 * 16000

\* the loop run step by step returns what SplitChunks computes in one go
SplitChunksAgrees == loopPc = "returned" => loopChunks = SplitChunks(pcmLength)

----------------------------------------------------------------------------
(* Properties of the transcription run, checked under Spec *)

\* the loop of handleFileSelect is over: every chunk has been transcribed
LoopFinished(f) ==
    \/ f.pc \in {"unify", "unifyBackoff", "done"}
    \/ f.pc = "aborted" /\ f.failure # Null /\ f.failure[1].stage = "unify"

\* the run is between its first await and its end
Running(f) == f.pc \in {"decode", "resample", "transcribe", "backoff",
                        "unify", "unifyBackoff"}

\* the text the remote call of chunk seg returned
AnswerOf(answers, seg) ==
    (CHOOSE a \in Range(answers) : a.seg = seg).text

\* the answers of chunks seg..n-1, each followed by a line break
RECURSIVE FragmentsFrom(_, _, _)
FragmentsFrom(answers, seg, n) ==
    IF seg >= n THEN <<>>
    ELSE AnswerOf(answers, seg) \o <<NL>> \o FragmentsFrom(answers, seg + 1, n)

\* C4: the transcript assembled by the loop holds the text returned for each
\* chunk 0..n-1 exactly once, in index order, each followed by a line break;
\* while the loop runs it holds those of the chunks 0..i-1.
C4_AssemblyOrder ==
    \A r \in RunIds :
        LET f == frames[r]
            n == Len(f.chunks)
        IN  /\ \A seg \in 0..(f.i - 1) :
                    Cardinality({k \in 1..Len(f.answers) : f.answers[k].seg = seg}) = 1
            /\ \A k \in 1..Len(f.answers) : f.answers[k].seg < f.i
            /\ f.fullTranscript = FragmentsFrom(f.answers, 0, f.i)
            /\ LoopFinished(f) => f.i = n /\ Len(f.answers) = n

C4_Witness ==
    \E r \in RunIds :
        /\ frames[r].pc = "done"
        /\ Len(frames[r].chunks) = 3
        /\ AnswerOf(frames[r].answers, 0) = <<"B">>
        /\ AnswerOf(frames[r].answers, 1) = <<"A">>
        /\ AnswerOf(frames[r].answers, 2) = LongText

\* C5: at most one remote call of a run is in flight; a transcription call in
\* flight is the one of the current chunk i, every call started so far is for
\* a chunk up to i, and every chunk before i has been answered.
C5_OneCallInFlight ==
    \A r \in RunIds :
        LET f == frames[r]
        IN  /\ Cardinality(f.inFlight) <= 1
            /\ \A c \in f.inFlight :
                    /\ c.kind = "transcribe" => c.seg = f.i /\ f.pc = "transcribe"
                    /\ c.kind = "unify" => f.pc = "unify" /\ f.i = Len(f.chunks)
            /\ \A c \in f.dispatched :
                    c.kind = "transcribe" =>
                        /\ c.seg <= f.i
                        /\ \A seg \in 0..(c.seg - 1) :
                                /\ TranscribeCall(seg) \in f.dispatched
                                /\ TranscribeCall(seg) \notin f.inFlight
                                /\ \E k \in 1..Len(f.answers) : f.answers[k].seg = seg

C5_Witness ==
    \E r \in RunIds :
        /\ frames[r].pc = "transcribe"
        /\ frames[r].i = 2
        /\ frames[r].inFlight = {TranscribeCall(2)}
        /\ frames[r].retries < DEFAULT_RETRIES

\* segment failure.seg failed with an error that is not a quota error, after
\* retryOperation had used up its retries
NonFatalFailure(f) ==
    /\ f.failure # Null
    /\ f.failure[1].stage = "transcribe"
    /\ ~IsQuota(f.failure[1].error)
    /\ f.failure[1].retries = 0

\* C6: a chunk whose transcription fails for good with an error that is not a
\* quota error does not abort the run: the run goes on and no error is set.
C6_FailureIsolated ==
    \A r \in RunIds :
        NonFatalFailure(frames[r]) =>
            /\ frames[r].pc # "aborted"
            /\ transcription.error = Null

\* the run was ended by a quota error of the transcription of chunk failure.seg
FatalAbort(f) ==
    /\ f.pc = "aborted"
    /\ f.failure # Null
    /\ f.failure[1].stage = "transcribe"
    /\ IsQuota(f.failure[1].error)

\* what holds of the code after a quota error: nothing more is sent or saved
FatalAbortStops ==
    \A r \in RunIds :
        FatalAbort(frames[r]) =>
            /\ \A c \in frames[r].dispatched :
                    c.kind = "transcribe" /\ c.seg <= frames[r].failure[1].seg
            /\ frames[r].inFlight = {}
            /\ archive = frames[r].archiveAtStart
            /\ activeRecordId = Null
            /\ transcription.error = Some("QUOTA_EXHAUSTED")
            /\ ~transcription.isTranscribing

\* C7: after a quota error on chunk k no call is sent for a later chunk, the
\* cleanup call is not sent, no record is saved, the error is set, and the text
\* shown is not the partial transcript of the chunks 0..k-1.
C7_FatalAbort ==
    /\ FatalAbortStops
    /\ \A r \in RunIds :
            FatalAbort(frames[r]) /\ frames[r].failure[1].seg > 0 =>
                transcription.text # frames[r].fullTranscript

\* C8: the j-th progress value of a run is 100 * j / n rounded to the nearest
\* integer (halves up), for j = 1..n chunks done; the values never decrease
\* and lie in 0..100.
C8_Progress ==
    \A r \in RunIds :
        LET f == frames[r]
            n == Len(f.chunks)
        IN  /\ \A j \in 1..Len(f.emitted) :
                    /\ f.emitted[j] \in 0..100
                    /\ j <= n =>
                        /\ 2 * n * f.emitted[j] <= 200 * j + n
                        /\ 200 * j + n < 2 * n * (f.emitted[j] + 1)
                    /\ j > 1 => f.emitted[j - 1] <= f.emitted[j]
            /\ Running(f) => Len(f.emitted) = f.i
            /\ Running(f) /\ f.i > 0 => transcription.progress = f.emitted[f.i]

C8_Witness ==
    \E r \in RunIds :
        /\ frames[r].pc = "unify"
        /\ frames[r].emitted = <<33, 67, 100>>

\* C9: as long as the cleanup call has not returned, every progress value the
\* run has emitted is below 100.
C9_HeadroomBeforeCleanup ==
    \A r \in RunIds :
        Running(frames[r]) =>
            /\ transcription.progress < 100
            /\ \A j \in 1..Len(frames[r].emitted) : frames[r].emitted[j] < 100

\* the non-empty texts of the answers of chunks seg..n-1, two line breaks
\* between one and the next
RECURSIVE JoinNonEmpty(_, _, _, _)
JoinNonEmpty(answers, seg, n, started) ==
    IF seg >= n THEN <<>>
    ELSE IF AnswerOf(answers, seg) = <<>> THEN JoinNonEmpty(answers, seg + 1, n, started)
    ELSE (IF started THEN <<NL, NL>> ELSE <<>>) \o AnswerOf(answers, seg)
            \o JoinNonEmpty(answers, seg + 1, n, TRUE)

\* C10: the assembled transcript is the non-empty fragments in index order
\* with a paragraph break (two line breaks) between them and none at the end.
C10_ParagraphJoin ==
    \A r \in RunIds :
        LoopFinished(frames[r]) =>
            frames[r].fullTranscript =
                JoinNonEmpty(frames[r].answers, 0, Len(frames[r].chunks), FALSE)

----------------------------------------------------------------------------
(* Further properties of the transcription run, checked under Spec *)

\* a text with nothing in it but line breaks (the empty text included)
SeparatorOnly(text) == \A k \in 1..Len(text) : text[k] = NL

\* every chunk of the run was answered, each with an empty text
AllFragmentsEmpty(f) ==
    /\ Len(f.chunks) > 0
    /\ Len(f.answers) = Len(f.chunks)
    /\ \A k \in 1..Len(f.answers) : f.answers[k].text = <<>>

\* C11: a run whose chunks all came back without text does not end completed
\* with an empty or separator-only transcript and no error, and no record with
\* such a transcript is in the archive.
C11_EmptyResultSurfaced ==
    /\ \A r \in RunIds :
            frames[r].pc = "done" /\ AllFragmentsEmpty(frames[r]) =>
                transcription.error # Null
    /\ \A k \in 1..Len(archive) : ~SeparatorOnly(archive[k].transcription)

----------------------------------------------------------------------------
(* retryOperation taken alone, in the three versions the repository holds: *)
(*   "v1"  services/geminiService.ts lines 11-25   (retries 3, delay 2000) *)
(*   "v2"  services/geminiService.ts lines 123-139 and part_002 lines      *)
(*         11-25                                   (retries 3, delay 1000) *)
(*   "v3"  part_002 lines 229-261                  (retries 5, delay 2000) *)

RetryVersions == {"v1", "v2", "v3"}

V2_RETRIES == 3

V2_DELAY == 1000

V3_RETRIES == 5

V3_DELAY == 2000

\* Math.max(delay, 15000) of version 3
RATE_LIMIT_WAIT == 15000

DefaultRetries(version) ==
    CASE version = "v1" -> DEFAULT_RETRIES
      [] version = "v2" -> V2_RETRIES
      [] version = "v3" -> V3_RETRIES

DefaultDelay(version) ==
    CASE version = "v1" -> DEFAULT_DELAY
      [] version = "v2" -> V2_DELAY
      [] version = "v3" -> V3_DELAY

\* the errors operation() rejects with when retryOperation is taken alone;
\* "Rpc failed" is the spelling version 2 looks for, "rpc failed" its lower case
RetryErrors ==
    {[message |-> "429 Too Many Requests", contains |-> {"429"}],
     [message |-> "RESOURCE_EXHAUSTED", contains |-> {"resource_exhausted"}],
     [message |-> "500 Internal", contains |-> {"500"}],
     [message |-> "503 Service Unavailable", contains |-> {"503"}],
     [message |-> "Request timeout", contains |-> {"timeout"}],
     [message |-> "Rpc failed due to xhr error",
      contains |-> {"Rpc failed", "rpc failed", "xhr error"}],
     [message |-> "Failed to fetch", contains |-> {}]}

\* the wait doubles from one attempt to the next: delay * 2, waitTime * 2
BackoffNext(wait) == wait * 2

\* version 2: isNetworkError
IsNetworkErrorV2(error) ==
    \/ "Rpc failed" \in error.contains
    \/ "xhr error" \in error.contains
    \/ "500" \in error.contains
    \/ "503" \in error.contains

\* version 3: isRateLimit
IsRateLimitV3(error) ==
    \/ "429" \in error.contains
    \/ "quota" \in error.contains
    \/ "resource_exhausted" \in error.contains

\* version 3: isNetworkError
IsNetworkErrorV3(error) ==
    \/ "rpc failed" \in error.contains
    \/ "xhr error" \in error.contains
    \/ "fetch failed" \in error.contains
    \/ "500" \in error.contains
    \/ "503" \in error.contains

\* version 3: const waitTime = isRateLimit ? Math.max(delay, 15000) : delay
WaitTimeV3(error, delay) ==
    IF IsRateLimitV3(error)
    THEN (IF delay > RATE_LIMIT_WAIT THEN delay ELSE RATE_LIMIT_WAIT)
    ELSE delay

\* the catch block of each version: throw, or wait and call again
RetryDecision(version, error, retries, delay) ==
    CASE version = "v1" ->
            [do |-> retryOperation(error, retries).do,
             error |-> retryOperation(error, retries).error,
             wait |-> delay]
      [] version = "v2" ->
            IF retries > 0 /\ IsNetworkErrorV2(error)
            THEN [do |-> "retry", error |-> error, wait |-> delay]
            ELSE [do |-> "throw", error |-> error, wait |-> delay]
      [] version = "v3" ->
            IF retries > 0 /\ (IsNetworkErrorV3(error) \/ IsRateLimitV3(error))
            THEN [do |-> "retry", error |-> error, wait |-> WaitTimeV3(error, delay)]
            ELSE [do |-> "throw", error |-> error, wait |-> delay]

\* the values of the parameter retries: the default, which is what every
\* caller in the repository passes, and 0 and 1
RetryBudgets(version) == {0, 1, DefaultRetries(version)}

\* retryOperation(operation, retries) is called: operation() is pending;
\* budget keeps the retries the call started with
RetryInit ==
    /\ \E version \in RetryVersions : \E retries \in RetryBudgets(version) :
            retry = [pc |-> "calling", version |-> version,
                     retries |-> retries,
                     delay |-> DefaultDelay(version),
                     budget |-> retries,
                     calls |-> 1, waits |-> <<>>, errors |-> <<>>, thrown |-> Null]
    /\ AppIdle
    /\ SplitIdle
    /\ StoreIdle
    /\ WavIdle
    /\ TextIdle
    /\ UiIdle

\* operation() resolves: return its result
OperationResolves ==
    /\ retry.pc = "calling"
    /\ retry' = [retry EXCEPT !.pc = "returned"]
    /\ UNCHANGED <<appVars, splitVars, storeVars, wavVars, textVars, uiVars>>

\* operation() rejects and the catch block sets the timer
OperationRejectsRetry(error) ==
    LET d == RetryDecision(retry.version, error, retry.retries, retry.delay)
    IN  /\ retry.pc = "calling"
        /\ d.do = "retry"
        /\ retry' = [retry EXCEPT !.pc = "waiting",
                                  !.errors = Append(@, error),
                                  !.waits = Append(@, d.wait)]
        /\ UNCHANGED <<appVars, splitVars, storeVars, wavVars, textVars, uiVars>>

\* operation() rejects and the catch block throws
OperationRejectsThrow(error) ==
    LET d == RetryDecision(retry.version, error, retry.retries, retry.delay)
    IN  /\ retry.pc = "calling"
        /\ d.do = "throw"
        /\ retry' = [retry EXCEPT !.pc = "thrown",
                                  !.errors = Append(@, error),
                                  !.thrown = Some(d.error)]
        /\ UNCHANGED <<appVars, splitVars, storeVars, wavVars, textVars, uiVars>>

\* the timer fires: retryOperation(operation, retries - 1, wait * 2)
RetryTimerFires ==
    /\ retry.pc = "waiting"
    /\ retry' = [retry EXCEPT !.pc = "calling",
                              !.retries = @ - 1,
                              !.delay = BackoffNext(retry.waits[Len(retry.waits)]),
                              !.calls = @ + 1]
    /\ UNCHANGED <<appVars, splitVars, storeVars, wavVars, textVars, uiVars>>

RetryNext ==
    \/ OperationResolves
    \/ \E error \in RetryErrors : OperationRejectsRetry(error)
    \/ \E error \in RetryErrors : OperationRejectsThrow(error)
    \/ RetryTimerFires

SpecRetry == RetryInit /\ [][RetryNext]_vars

----------------------------------------------------------------------------
(* Properties of retryOperation, checked under SpecRetry *)

\* a rate-limit or quota error, as the specification classifies it
RateLimited(error) ==
    \/ "429" \in error.contains
    \/ "quota" \in error.contains
    \/ "resource_exhausted" \in error.contains

\* a transient error as the specification classifies it: a network error, a
\* 5xx answer or a timeout
TransientMessages ==
    {"500 Internal", "503 Service Unavailable", "Request timeout",
     "Rpc failed due to xhr error", "Failed to fetch"}

Transient(error) == error.message \in TransientMessages

\* every wait that follows an error which is not a rate-limit error is the
\* base delay if it is the first wait and twice the wait before it otherwise;
\* there are at most as many waits as the configured retries, one call more
\* than waits, and once the retries are used up the error thrown is the last
\* one operation() rejected with
BackoffDoubles ==
    /\ \A j \in 1..Len(retry.waits) :
            ~RateLimited(retry.errors[j]) =>
                retry.waits[j] = IF j = 1 THEN DefaultDelay(retry.version)
                                 ELSE 2 * retry.waits[j - 1]
    /\ Len(retry.waits) <= retry.budget
    /\ retry.calls <= retry.budget + 1
    /\ retry.retries = retry.budget - Len(retry.waits)
            + (IF retry.pc = "waiting" THEN 1 ELSE 0)
    /\ retry.pc = "thrown" /\ Len(retry.waits) = retry.budget
            /\ ~RateLimited(retry.errors[Len(retry.errors)]) =>
                retry.thrown = Some(retry.errors[Len(retry.errors)])

BackoffExhausted ==
    /\ retry.pc = "thrown"
    /\ retry.version = "v1"
    /\ retry.waits = <<2000, 4000, 8000>>
    /\ retry.calls = 4
    /\ retry.thrown = Some([message |-> "500 Internal", contains |-> {"500"}])

\* C12: a call rejected with a transient error (network error, 5xx, timeout)
\* is retried, that is followed by a wait, unless the configured retries are
\* used up; the waits double from the base delay, and after the last retry
\* the last error is thrown.
C12_TransientRetried ==
    /\ BackoffDoubles
    /\ \A j \in 1..Len(retry.errors) :
            Transient(retry.errors[j]) =>
                \/ j <= Len(retry.waits)
                \/ j = retry.budget + 1

\* the transient errors each version throws at once, with retries left
ThrownEarly(version) ==
    {error \in RetryErrors :
        /\ Transient(error)
        /\ RetryDecision(version, error, DefaultRetries(version),
                         DefaultDelay(version)).do = "throw"}

\* which transient errors are not retried, version by version
TransientNotRetried ==
    /\ {e.message : e \in ThrownEarly("v1")}
            = {"503 Service Unavailable", "Rpc failed due to xhr error",
               "Failed to fetch"}
    /\ {e.message : e \in ThrownEarly("v2")} = {"Request timeout", "Failed to fetch"}
    /\ {e.message : e \in ThrownEarly("v3")} = {"Request timeout", "Failed to fetch"}

\* what version 3 does with a rate-limit error: it waits at least 15 s and
\* throws only when no retry is left
RateLimitBackoffV3 ==
    retry.version = "v3" =>
        \A j \in 1..Len(retry.errors) :
            RateLimited(retry.errors[j]) =>
                \/ j <= Len(retry.waits) /\ retry.waits[j] >= RATE_LIMIT_WAIT
                \/ j = retry.budget + 1 /\ retry.pc = "thrown"

\* C13: a call rejected with a rate-limit or quota error is retried after a
\* wait above the base delay; the error is thrown only once the retries are
\* used up.
C13_RateLimitRetried ==
    \A j \in 1..Len(retry.errors) :
        RateLimited(retry.errors[j]) =>
            \/ j <= Len(retry.waits) /\ retry.waits[j] > DefaultDelay(retry.version)
            \/ j = retry.budget + 1 /\ retry.pc = "thrown"

----------------------------------------------------------------------------
(* Properties of handleFileSelect when processLargeAudioFile fails, checked *)
(* under Spec                                                               *)

\* processLargeAudioFile threw: decoding or resampling failed
ProcessFailed(f) ==
    /\ f.failure # Null
    /\ f.failure[1].stage \in {"decode", "resample"}

\* C14: when decoding or resampling fails, processLargeAudioFile throws its
\* one fixed error and returns no list of chunks, no remote call is started,
\* no record is saved, and the run ends with that error set and
\* isTranscribing false.
C14_DecodeFailurePropagates ==
    \A r \in RunIds :
        ProcessFailed(frames[r]) =>
            /\ frames[r].pc = "aborted"
            /\ frames[r].failure[1].thrown = DecodeError
            /\ frames[r].chunks = <<>>
            /\ frames[r].dispatched = {}
            /\ frames[r].inFlight = {}
            /\ frames[r].answers = <<>>
            /\ archive = frames[r].archiveAtStart
            /\ transcription.error = Some(DecodeError.message)
            /\ ~transcription.isTranscribing

\* rendering was rejected for a file of more than one chunk
C14_Witness ==
    \E r \in RunIds :
        /\ ProcessFailed(frames[r])
        /\ frames[r].failure[1].stage = "resample"
        /\ frames[r].failure[1].error = RenderingError
        /\ frames[r].samples = Some(2 * SAMPLES_PER_CHUNK)
        /\ frames[r].pc = "aborted"

\* the file was decoded to a buffer of no samples
ZeroSamples(f) == f.samples = Some(0)

\* C15: a run whose decoded buffer has 0 samples fails: it is aborted with an
\* error set, it never completes, it never has an empty list of chunks as the
\* result of processLargeAudioFile, and it saves no record.
C15_ZeroLengthFails ==
    \A r \in RunIds :
        ZeroSamples(frames[r]) =>
            /\ frames[r].pc = "aborted"
            /\ ProcessFailed(frames[r])
            /\ frames[r].dispatched = {}
            /\ archive = frames[r].archiveAtStart
            /\ transcription.error # Null
            /\ ~transcription.isTranscribing

C15_Witness ==
    \E r \in RunIds :
        /\ ZeroSamples(frames[r])
        /\ frames[r].pc = "aborted"
        /\ frames[r].failure[1].error = NotSupportedError
        /\ transcription.error = Some(DecodeError.message)

----------------------------------------------------------------------------
(* The life of a run: Idle -> Running -> {Completed | Aborted}              *)

\* a pending promise or timer of the run settles
RunStep ==
    \/ \E r \in RunIds, len \in RunSampleCounts : DecodeResolved(r, len)
    \/ \E r \in RunIds : DecodeRejected(r)
    \/ \E r \in RunIds, t \in 0..MaxClock : ResampleResolved(r, t)
    \/ \E r \in RunIds : ResampleRejected(r)
    \/ \E r \in RunIds, text \in ResponseTexts, t \in 0..MaxClock :
            SegmentResolved(r, text, t)
    \/ \E r \in RunIds, error \in ErrorSamples : SegmentRetry(r, error)
    \/ \E r \in RunIds, error \in ErrorSamples : SegmentThrow(r, error)
    \/ \E r \in RunIds : BackoffDone(r)
    \/ \E r \in RunIds, text \in ResponseTexts, t \in 0..MaxClock :
            UnifyResolved(r, text, t)
    \/ \E r \in RunIds, error \in ErrorSamples : UnifyRetry(r, error)
    \/ \E r \in RunIds, error \in ErrorSamples : UnifyThrow(r, error)
    \/ \E r \in RunIds : UnifyBackoffDone(r)

\* every promise the run awaits and every timer it sets settles in the end;
\* nothing is assumed of the user, who may never select a file
SpecFair == Spec /\ WF_vars(RunStep)

Completed(f) ==
    /\ f.pc = "done"
    /\ ~transcription.isTranscribing
    /\ transcription.progress = 100
    /\ transcription.error = Null
    /\ Len(archive) > 0
    /\ transcription.text = archive[1].transcription
    /\ activeRecordId = Some(archive[1].id)

Aborted(f) ==
    /\ f.pc = "aborted"
    /\ ~transcription.isTranscribing
    /\ transcription.error # Null

Terminal(f) == f.pc \in {"done", "aborted"}

\* handleFileSelect is called for frame r
Selects(r) ==
    \/ \E file \in Files : SelectArchivedFile(r, file)
    \/ \E file \in Files : SelectNewFile(r, file)

\* C16: a run that handleFileSelect started ends, provided every call it
\* awaits settles: it reaches Completed (isTranscribing false, progress 100,
\* the final transcript shown and saved) or Aborted (isTranscribing false, an
\* error set); a frame is in no other terminal state; a terminal frame stays
\* as it is until handleFileSelect is called again; and a run starts only
\* from a frame that is not running.
C16_RunLifecycle ==
    /\ \A r \in RunIds : Running(frames[r]) ~> Terminal(frames[r])
    /\ [](\A r \in RunIds :
            /\ Terminal(frames[r]) => Completed(frames[r]) \/ Aborted(frames[r])
            /\ Running(frames[r]) => transcription.isTranscribing)
    /\ [][\A r \in RunIds :
            /\ Terminal(frames[r]) /\ frames'[r] # frames[r] => Selects(r)
            /\ ~Running(frames[r]) /\ Running(frames'[r]) =>
                    /\ frames'[r].pc = "decode"
                    /\ \E file \in Files : SelectNewFile(r, file)]_vars

\* a run of two chunks that called the cleanup and completed
C16_Witness ==
    \E r \in RunIds :
        /\ Completed(frames[r])
        /\ Len(frames[r].chunks) = 2
        /\ UnifyCall \in frames[r].dispatched
        /\ frames[r].emitted = <<50, 100, 100>>

----------------------------------------------------------------------------
(* storageService taken alone: saveRecord, deleteRecord and                *)
(* findRecordForFile called in any order on archives of 0, 1, 49 and 50    *)
(* records. localStorage is taken to work: getItem returns what setItem    *)
(* stored and setItem does not throw, so the catch blocks are not entered. *)

\* the number of saveRecord and deleteRecord calls made on one archive
MaxStoreOps == 2

OldFile == [name |-> "old.mp3", size |-> 10, lastModified |-> 0]

\* the k-th record saved before the calls start
Filler(k) == NewRecord(OldFile, <<"A">>, k)

\* an archive of len records, the one saved last first
FilledArchive(len) == [k \in 1..len |-> Filler(len - k + 1)]

ArchiveLengths == {0, 1, MAX_RECORDS - 1, MAX_RECORDS}

\* the clock values of the records saved: that of the oldest filler and a new one
StoreTimes == {1, 2 * MAX_RECORDS}

StoreFiles ==
    {OldFile,
     [name |-> "old.mp3", size |-> 10, lastModified |-> 1000],
     [name |-> "new.mp3", size |-> 10, lastModified |-> 1000]}

\* the records passed to saveRecord
StoreRecords ==
    {NewRecord(file, text, t) :
        file \in StoreFiles, text \in {<<"A">>, <<"B">>}, t \in StoreTimes}

\* the ids passed to deleteRecord
StoreIds == {r.id : r \in StoreRecords} \cup {Filler(2).id}

\* the files passed to findRecordForFile
QueryFiles ==
    {[name |-> "old.mp3", size |-> 10, lastModified |-> lm] :
        lm \in {0, 999, 1000, 1999, 2000}}
    \cup {[name |-> "old.mp3", size |-> 11, lastModified |-> 0],
          [name |-> "new.mp3", size |-> 10, lastModified |-> 1]}

Ids(list) == {list[k].id : k \in 1..Len(list)}

StoreInit ==
    /\ \E len \in ArchiveLengths :
            /\ archive = FilledArchive(len)
            /\ store = [ops |-> 0, last |-> Null,
                        stamp |-> [id \in Ids(FilledArchive(len)) |-> id[2]],
                        query |-> Null, found |-> Null]
    /\ transcription = InitialTranscription
    /\ activeRecordId = Null
    /\ now = 0
    /\ frames = [r \in RunIds |-> IdleFrame]
    /\ SplitIdle
    /\ RetryIdle
    /\ WavIdle
    /\ TextIdle
    /\ UiIdle

\* saveRecord(record); stamp counts the saves, for the order of saving
SaveRecord(record) ==
    /\ store.ops < MaxStoreOps
    /\ archive' = saveRecord(archive, record)
    /\ store' = [ops |-> store.ops + 1,
                 last |-> Some([kind |-> "save", record |-> record,
                                id |-> record.id, before |-> archive]),
                 stamp |-> [id \in DOMAIN store.stamp \cup {record.id} |->
                                IF id = record.id
                                THEN MAX_RECORDS + store.ops + 1
                                ELSE store.stamp[id]],
                 query |-> Null, found |-> Null]
    /\ UNCHANGED <<runVars, splitVars, retryVars, wavVars, textVars, uiVars>>

\* deleteRecord(id)
DeleteRecord(id) ==
    /\ store.ops < MaxStoreOps
    /\ archive' = deleteRecord(archive, id)
    /\ store' = [store EXCEPT !.ops = @ + 1,
                              !.last = Some([kind |-> "delete", record |-> Null,
                                             id |-> id, before |-> archive]),
                              !.query = Null, !.found = Null]
    /\ UNCHANGED <<runVars, splitVars, retryVars, wavVars, textVars, uiVars>>

\* findRecordForFile(file); it only reads, so one call between two writes
\* shows what any number of calls would
FindRecord(file) ==
    /\ store.query = Null
    /\ store' = [store EXCEPT !.query = Some(file),
                              !.found = findRecordForFile(archive, file)]
    /\ UNCHANGED <<appVars, splitVars, retryVars, wavVars, textVars, uiVars>>

StoreNext ==
    \/ \E record \in StoreRecords : SaveRecord(record)
    \/ \E id \in StoreIds : DeleteRecord(id)
    \/ \E file \in QueryFiles : FindRecord(file)

SpecStore == StoreInit /\ [][StoreNext]_vars

----------------------------------------------------------------------------
(* Properties of the storage service, checked under SpecStore *)

LastSave == store.last # Null /\ store.last[1].kind = "save"

LastDelete == store.last # Null /\ store.last[1].kind = "delete"

Oldest(list) ==
    CHOOSE x \in Range(list) :
        \A y \in Range(list) : store.stamp[x.id] <= store.stamp[y.id]

Matching(file) == {k \in 1..Len(archive) : MatchesFile(archive[k], file)}

\* C19: findRecordForFile(file) returns a record only if it has the name and
\* the size of the file and a lastModified less than 1000 ms from the file's;
\* it returns the first such record of the archive, and undefined when there
\* is none.
C19_FindRecord ==
    store.query # Null =>
        LET file == store.query[1]
            Near(x) == /\ x.fileName = file.name
                       /\ x.fileSize = file.size
                       /\ x.lastModified - file.lastModified < 1000
                       /\ file.lastModified - x.lastModified < 1000
            near == {k \in 1..Len(archive) : Near(archive[k])}
        IN  IF near = {}
            THEN store.found = Null
            ELSE /\ store.found # Null
                 /\ \E k \in near :
                        /\ store.found[1] = archive[k]
                        /\ \A j \in near : k <= j

\* a file is found by a record 999 ms from it, in an archive that also holds
\* records of the same name and size 1999 ms from it
C19_Witness ==
    /\ store.query # Null
    /\ store.found # Null
    /\ store.query[1].lastModified = 1999
    /\ store.found[1].lastModified = 1000
    /\ Len(archive) >= 2
    /\ \E k \in 1..Len(archive) : archive[k].lastModified = 0

----------------------------------------------------------------------------
(* encodeWAV taken alone, byte by byte. The buffer is a sequence of bytes, *)
(* the byte at offset k of the DataView is bytes[k + 1]. A sample is the  *)
(* number of quarters it holds, so that 4 is 1.0 and -8 is -2.0; NaN, which *)
(* a Float32Array can hold as well, is the value NaNSample.                *)

\* the longest slice of freely chosen samples
MaxSamples == 2

\* a slice long enough for its byte length to need a second byte
LongSliceLength == 150

SampleDen == 4

\* the element of a Float32Array that is not a number
NaNSample == 1000

IsNaN(sample) == sample = NaNSample

\* -2.0, -1.25, -1.0, -0.75, -0.25, 0, 0.25, 0.5, 1.0, 1.25, 2.0 and NaN
SampleValues == {-8, -5, -4, -3, -1, 0, 1, 2, 4, 5, 8, NaNSample}

RECURSIVE SlicesOfLength(_)
SlicesOfLength(n) ==
    IF n = 0 THEN {<<>>}
    ELSE {Append(s, v) : s \in SlicesOfLength(n - 1), v \in SampleValues}

Slices ==
    UNION {SlicesOfLength(n) : n \in 0..MaxSamples}
        \cup {[k \in 1..LongSliceLength |-> 2]}

\* view.setUint8(offset, value)
setUint8(bytes, offset, value) == [bytes EXCEPT ![offset + 1] = value % 256]

\* the width bytes of value, the most significant first
BigEndian(bytes, offset, value, width) ==
    [k \in 1..Len(bytes) |->
        IF k > offset /\ k <= offset + width
        THEN (value \div 256 ^ (offset + width - k)) % 256
        ELSE bytes[k]]

\* the width bytes of value, the least significant first
LittleEndian(bytes, offset, value, width) ==
    [k \in 1..Len(bytes) |->
        IF k > offset /\ k <= offset + width
        THEN (value \div 256 ^ (k - offset - 1)) % 256
        ELSE bytes[k]]

setUint32_BigEndian(bytes, offset, value) == BigEndian(bytes, offset, value, 4)

\* view.setUint32(offset, value, true); every value written is between 0 and
\* 2^31, where the reduction modulo 2^32 changes nothing
setUint32(bytes, offset, value) == LittleEndian(bytes, offset, value, 4)

\* view.setUint16(offset, value, true)
setUint16(bytes, offset, value) == LittleEndian(bytes, offset, value % 2 ^ 16, 2)

\* view.setInt16(offset, value, true) for a whole value: two's complement
setInt16(bytes, offset, value) == LittleEndian(bytes, offset, value % 2 ^ 16, 2)

\* writeString(view, offset, string), string given by its char codes
RECURSIVE writeString(_, _, _)
writeString(bytes, offset, codes) ==
    IF codes = <<>> THEN bytes
    ELSE writeString(setUint8(bytes, offset, Head(codes)), offset + 1, Tail(codes))

\* the conversion without the clamp
Clamp_None(sample) == sample

\* Math.max(-1, Math.min(1, input[i])); Math.min and Math.max return NaN for NaN
Clamp(sample) ==
    IF IsNaN(sample) THEN sample
    ELSE IF sample > SampleDen THEN SampleDen
    ELSE IF sample < -SampleDen THEN -SampleDen ELSE sample

\* s < 0 ? s * 0x8000 : s * 0x7FFF, cut to a whole number toward zero as
\* setInt16 does; NaN < 0 is false, NaN * 0x7FFF is NaN and setInt16 stores 0
SampleToInt16(sample) ==
    LET s == Clamp(sample)
    IN  IF IsNaN(s) THEN 0
        ELSE IF s < 0 THEN -((-s * 32768) \div SampleDen)
        ELSE (s * 32767) \div SampleDen

\* the thirteen writes of the header, in the order of lines 19-35
HeaderWrites(n) ==
    <<[op |-> "string", offset |-> 0, codes |-> <<82, 73, 70, 70>>, value |-> 0],
      [op |-> "u32", offset |-> 4, codes |-> <<>>, value |-> 36 + n * 2],
      [op |-> "string", offset |-> 8, codes |-> <<87, 65, 86, 69>>, value |-> 0],
      [op |-> "string", offset |-> 12, codes |-> <<102, 109, 116, 32>>, value |-> 0],
      [op |-> "u32", offset |-> 16, codes |-> <<>>, value |-> 16],
      [op |-> "u16", offset |-> 20, codes |-> <<>>, value |-> 1],
      [op |-> "u16", offset |-> 22, codes |-> <<>>, value |-> NUM_CHANNELS],
      [op |-> "u32", offset |-> 24, codes |-> <<>>, value |-> SAMPLE_RATE],
      [op |-> "u32", offset |-> 28, codes |-> <<>>,
       value |-> SAMPLE_RATE * NUM_CHANNELS * 2],
      [op |-> "u16", offset |-> 32, codes |-> <<>>, value |-> NUM_CHANNELS * 2],
      [op |-> "u16", offset |-> 34, codes |-> <<>>, value |-> BIT_DEPTH],
      [op |-> "string", offset |-> 36, codes |-> <<100, 97, 116, 97>>, value |-> 0],
      [op |-> "u32", offset |-> 40, codes |-> <<>>, value |-> n * 2]>>

ApplyWrite(bytes, w) ==
    CASE w.op = "string" -> writeString(bytes, w.offset, w.codes)
      [] w.op = "u32" -> setUint32(bytes, w.offset, w.value)
      [] w.op = "u16" -> setUint16(bytes, w.offset, w.value)

\* new ArrayBuffer(length): all bytes 0
NewBuffer(length) == [k \in 1..length |-> 0]

\* the header of a slice of n samples: the writes applied to 44 bytes
RECURSIVE HeaderAfter(_, _, _)
HeaderAfter(bytes, n, step) ==
    IF step = Len(HeaderWrites(n)) THEN bytes
    ELSE HeaderAfter(ApplyWrite(bytes, HeaderWrites(n)[step + 1]), n, step + 1)

HeaderOf(n) == HeaderAfter(NewBuffer(44), n, 0)

\* encodeWAV(samples) is called: lines 14-16
WavInit ==
    /\ \E samples \in Slices :
            wav = [pc |-> "header", samples |-> samples,
                   bytes |-> NewBuffer(encodeWAVByteLength(Len(samples))),
                   step |-> 0, base64 |-> <<>>]
    /\ AppIdle
    /\ SplitIdle
    /\ RetryIdle
    /\ StoreIdle
    /\ TextIdle
    /\ UiIdle

\* one statement of lines 19-35
WriteHeaderField ==
    /\ wav.pc = "header"
    /\ wav.step < Len(HeaderWrites(Len(wav.samples)))
    /\ wav' = [wav EXCEPT
                !.bytes = ApplyWrite(@, HeaderWrites(Len(wav.samples))[wav.step + 1]),
                !.step = @ + 1]
    /\ UNCHANGED <<appVars, splitVars, retryVars, storeVars, textVars, uiVars>>

\* floatTo16BitPCM(view, 44, samples) is called
StartSamples ==
    /\ wav.pc = "header"
    /\ wav.step = Len(HeaderWrites(Len(wav.samples)))
    /\ wav' = [wav EXCEPT !.pc = "samples", !.step = 0]
    /\ UNCHANGED <<appVars, splitVars, retryVars, storeVars, textVars, uiVars>>

\* one turn of the loop of floatTo16BitPCM; step is i, and offset is 44 + 2 * i
WriteSample ==
    /\ wav.pc = "samples"
    /\ wav.step < Len(wav.samples)
    /\ wav' = [wav EXCEPT
                !.bytes = setInt16(@, 44 + 2 * wav.step,
                                   SampleToInt16(wav.samples[wav.step + 1])),
                !.step = @ + 1]
    /\ UNCHANGED <<appVars, splitVars, retryVars, storeVars, textVars, uiVars>>

\* the loop ends and encodeWAV returns the buffer
WavReturn ==
    /\ wav.pc = "samples"
    /\ wav.step = Len(wav.samples)
    /\ wav' = [wav EXCEPT !.pc = "returned"]
    /\ UNCHANGED <<appVars, splitVars, retryVars, storeVars, textVars, uiVars>>

\* the '=' of base64, after the 64 characters 0..63 of its alphabet
Base64Pad == 64

\* window.btoa leaving out a last group of fewer than three bytes
btoa_SkipsPartial(binary) ==
    [k \in 1..(4 * (Len(binary) \div 3)) |->
        LET q == (k - 1) \div 4
            triple == binary[3 * q + 1] * 65536 + binary[3 * q + 2] * 256
                        + binary[3 * q + 3]
        IN  (triple \div 64 ^ (3 - ((k - 1) % 4))) % 64]

\* window.btoa(binary): three char codes give four characters, a last group
\* of one or two codes is filled with zero bits and padded with '='
btoa(binary) ==
    [k \in 1..(4 * ((Len(binary) + 2) \div 3)) |->
        LET q == (k - 1) \div 4
            pos == (k - 1) % 4
            At(j) == IF j <= Len(binary) THEN binary[j] ELSE 0
            triple == At(3 * q + 1) * 65536 + At(3 * q + 2) * 256 + At(3 * q + 3)
        IN  IF 3 * q + pos > Len(binary) THEN Base64Pad
            ELSE (triple \div 64 ^ (3 - pos)) % 64]

\* binary += String.fromCharCode(bytes[i]), for every byte: one code unit of
\* the value of the byte each
BinaryString(bytes) == [k \in 1..Len(bytes) |-> bytes[k]]

\* arrayBufferToBase64(buffer)
arrayBufferToBase64(bytes) == btoa(BinaryString(bytes))

\* processLargeAudioFile, line 108: the returned buffer is encoded as text
EncodeBase64 ==
    /\ wav.pc = "returned"
    /\ wav' = [wav EXCEPT !.pc = "encoded", !.base64 = arrayBufferToBase64(wav.bytes)]
    /\ UNCHANGED <<appVars, splitVars, retryVars, storeVars, textVars, uiVars>>

WavNext ==
    WriteHeaderField \/ StartSamples \/ WriteSample \/ WavReturn \/ EncodeBase64

SpecWav == WavInit /\ [][WavNext]_vars

----------------------------------------------------------------------------
(* Properties of encodeWAV, checked under SpecWav *)

\* what a reader of the file gets: little-endian fields
ReadUint(bytes, offset, width) ==
    LET RECURSIVE Sum(_)
        Sum(k) == IF k = width THEN 0
                  ELSE bytes[offset + k + 1] * 256 ^ k + Sum(k + 1)
    IN  Sum(0)

ReadInt16(bytes, offset) ==
    LET u == ReadUint(bytes, offset, 2)
    IN  IF u >= 32768 THEN u - 65536 ELSE u

\* the header fields of the claim, for a slice of n samples
HeaderDeclares(bytes, n) ==
    /\ ReadUint(bytes, 4, 4) = 36 + 2 * n
    /\ ReadUint(bytes, 20, 2) = 1
    /\ ReadUint(bytes, 22, 2) = 1
    /\ ReadUint(bytes, 24, 4) = 16000
    /\ ReadUint(bytes, 28, 4) = 32000
    /\ ReadUint(bytes, 32, 2) = 2
    /\ ReadUint(bytes, 34, 2) = 16
    /\ ReadUint(bytes, 40, 4) = 2 * n

\* C20: for a slice of n samples encodeWAV returns 44 + 2n bytes whose header
\* declares RIFF size 36 + 2n, format 1, 1 channel, sample rate 16000, byte
\* rate 32000, block alignment 2, 16 bits per sample and data length 2n; the
\* header of a full chunk of SAMPLES_PER_CHUNK samples declares the same.
C20_WavHeader ==
    /\ wav.pc # "idle" => Len(wav.bytes) = 44 + 2 * Len(wav.samples)
    /\ wav.pc = "returned" =>
            /\ HeaderDeclares(wav.bytes, Len(wav.samples))
            /\ \A i \in 1..Len(wav.samples) :
                    ReadInt16(wav.bytes, 44 + 2 * (i - 1))
                        = SampleToInt16(wav.samples[i])
    /\ wav.pc = "returned" /\ Len(wav.samples) = 0 =>
            HeaderDeclares(HeaderOf(SAMPLES_PER_CHUNK), SAMPLES_PER_CHUNK)

\* the long slice was encoded: its data length of 300 is the bytes 44, 1, 0, 0
C20_Witness ==
    /\ wav.pc = "returned"
    /\ Len(wav.samples) = LongSliceLength
    /\ Len(wav.bytes) = 344
    /\ SubSeq(wav.bytes, 41, 44) = <<44, 1, 0, 0>>
    /\ SubSeq(wav.bytes, 45, 46) = <<255, 63>>

----------------------------------------------------------------------------
(* Properties of floatTo16BitPCM, checked under SpecWav *)

\* the samples floatTo16BitPCM has written so far
Written ==
    CASE wav.pc = "samples" -> 1..wav.step
      [] wav.pc \in {"returned", "encoded"} -> 1..Len(wav.samples)
      [] OTHER -> {}

\* the 16-bit value stored for sample i
Stored(i) == ReadInt16(wav.bytes, 44 + 2 * (i - 1))

\* C21: every stored value lies in -32768..32767; a sample of -1 or less is
\* stored as -32768, 0 as 0, 1 or more as 32767; a sample s between them is
\* stored as 32768 * s if negative and 32767 * s otherwise, cut to a whole
\* number toward zero; and of two samples the greater is not stored as less.
C21_SampleConversion ==
    /\ \A i \in Written :
            LET s == wav.samples[i]
                v == Stored(i)
            IN  /\ v \in -32768..32767
                /\ ~IsNaN(s) =>
                    /\ s <= -SampleDen => v = -32768
                    /\ s = 0 => v = 0
                    /\ s >= SampleDen => v = 32767
                    /\ 0 <= s /\ s <= SampleDen =>
                            /\ SampleDen * v <= 32767 * s
                            /\ 32767 * s < SampleDen * (v + 1)
                    /\ -SampleDen <= s /\ s < 0 =>
                            /\ SampleDen * (v - 1) < 32768 * s
                            /\ 32768 * s <= SampleDen * v
    /\ \A i, j \in Written :
            ~IsNaN(wav.samples[i]) /\ ~IsNaN(wav.samples[j])
                /\ wav.samples[i] <= wav.samples[j] => Stored(i) <= Stored(j)

\* 2.0 and -1.25 were written: clamped to 32767 and -32768
C21_Witness ==
    /\ wav.pc = "returned"
    /\ wav.samples = <<8, -5>>
    /\ Stored(1) = 32767
    /\ Stored(2) = -32768

----------------------------------------------------------------------------
(* The round trip of an encoded chunk, checked under SpecWav *)

\* what the receiver does with the text: four characters give three bytes,
\* less one per '='
atob(chars) ==
    LET Sextet(k) == IF chars[k] = Base64Pad THEN 0 ELSE chars[k]
        pads == Cardinality({k \in 1..Len(chars) : chars[k] = Base64Pad})
    IN  [j \in 1..(3 * (Len(chars) \div 4) - pads) |->
            LET q == (j - 1) \div 3
                quad == Sextet(4 * q + 1) * 262144 + Sextet(4 * q + 2) * 4096
                            + Sextet(4 * q + 3) * 64 + Sextet(4 * q + 4)
            IN  (quad \div 256 ^ (2 - ((j - 1) % 3))) % 256]

\* floatTo16BitPCM as a whole, from sample i on: the loop writes sample s at
\* offset 44 + 2s and no two turns write the same byte, so each byte is the
\* one the setInt16 of its sample leaves there
floatTo16BitPCM(bytes, samples, i) ==
    [k \in 1..Len(bytes) |->
        LET s == (k - 45) \div 2
        IN  IF k > 44 + 2 * i /\ k <= 44 + 2 * Len(samples)
            THEN setInt16(bytes, 44 + 2 * s, SampleToInt16(samples[s + 1]))[k]
            ELSE bytes[k]]

\* encodeWAV as a whole
encodeWAV(samples) ==
    floatTo16BitPCM(
        HeaderAfter(NewBuffer(encodeWAVByteLength(Len(samples))), Len(samples), 0),
        samples, 0)

\* C22: decoding the text of an encoded chunk gives back the bytes encodeWAV
\* returned; the 16-bit little-endian values after the 44-byte header are
\* the quantized samples of the slice, in order, and as many as the data
\* length divided by 2; the bytes and the text depend on the samples only.
C22_RoundTrip ==
    wav.pc = "encoded" =>
        LET decoded == atob(wav.base64)
            n == Len(wav.samples)
        IN  /\ decoded = wav.bytes
            /\ Len(wav.base64) = arrayBufferToBase64Length(Len(wav.bytes))
            /\ \A k \in 1..Len(wav.base64) :
                    /\ wav.base64[k] \in 0..Base64Pad
                    /\ wav.base64[k] = Base64Pad => k > Len(wav.base64) - 2
            /\ ReadUint(decoded, 40, 4) = 2 * n
            /\ Len(decoded) - 44 = 2 * n
            /\ \A i \in 1..n :
                    ReadInt16(decoded, 44 + 2 * (i - 1)) = SampleToInt16(wav.samples[i])
            /\ wav.bytes = encodeWAV(wav.samples)
            /\ wav.base64 = arrayBufferToBase64(encodeWAV(wav.samples))

\* a slice of one sample: 46 bytes, 64 characters of which the last two are '='
C22_Witness ==
    /\ wav.pc = "encoded"
    /\ wav.samples = <<-3>>
    /\ Len(wav.base64) = 64
    /\ wav.base64[63] = Base64Pad
    /\ atob(wav.base64)[45] = 0
    /\ atob(wav.base64)[46] = 160

----------------------------------------------------------------------------
(* Termination of retryOperation, checked under SpecRetryFair *)

\* every invocation of operation() settles and every timer fires
SpecRetryFair == SpecRetry /\ WF_vars(RetryNext)

RetryEnded == retry.pc \in {"returned", "thrown"}

\* the version retries this error when retries are left
Retryable(version, error) ==
    RetryDecision(version, error, 1, DefaultDelay(version)).do = "retry"

\* the invocations, waits and errors of a call of retryOperation
RetryAttempts ==
    /\ retry.calls <= retry.budget + 1
    /\ retry.calls = Len(retry.waits) + (IF retry.pc = "waiting" THEN 0 ELSE 1)
    /\ retry.pc = "waiting" => retry.calls <= retry.budget
    /\ retry.pc = "returned" =>
            /\ Len(retry.errors) = retry.calls - 1
            /\ retry.thrown = Null
    /\ retry.pc = "thrown" =>
            /\ Len(retry.errors) = retry.calls
            /\ retry.thrown # Null
            /\ \/ ~Retryable(retry.version, retry.errors[retry.calls])
               \/ retry.calls = retry.budget + 1
    /\ \A j \in 1..Len(retry.errors) :
            ~Retryable(retry.version, retry.errors[j]) =>
                /\ j = Len(retry.errors)
                /\ retry.pc = "thrown"
                /\ Len(retry.waits) = j - 1

\* a call that ended does nothing more
RetryStaysEnded == [][RetryEnded => retry' = retry]_vars

\* the error thrown is the one operation() rejected with last
RethrowsLastError ==
    retry.pc = "thrown" => retry.thrown = Some(retry.errors[Len(retry.errors)])

\* the same, but for the first version, which throws a new error
\* QUOTA_EXHAUSTED in place of a 429 or quota error
ThrowsLastOrQuotaError ==
    retry.pc = "thrown" =>
        LET last == retry.errors[Len(retry.errors)]
        IN  retry.thrown =
                Some(IF retry.version = "v1" /\ IsQuota(last) THEN QuotaError ELSE last)

----------------------------------------------------------------------------
(* translateText taken alone: splitTextIntoChunks line by line, then the   *)
(* loop over the chunks. The repository holds three versions:              *)
(*   "v2"   services/geminiService.ts lines 141-164 and 239-272            *)
(*   "v2p"  part_002 lines 29-52 and 142-183 (the same with onProgress)    *)
(*   "v3"   part_002 lines 263-284 and 356-399 (chunks trimmed)            *)

TextVersions == {"v2", "v2p", "v3"}

\* the longest text passed to translateText
MaxTextLen == 4

\* the values of the parameter limit; the callers pass 6000 and 4000
TextLimits == {2, 3}

Chars == {"a", " ", NL}

Whitespace == {" ", NL}

RECURSIVE TextsOfLength(_)
TextsOfLength(n) ==
    IF n = 0 THEN {<<>>}
    ELSE {Append(t, c) : t \in TextsOfLength(n - 1), c \in Chars}

InputTexts == UNION {TextsOfLength(n) : n \in 0..MaxTextLen}

\* text.split('\n')
RECURSIVE SplitLinesFrom(_, _)
SplitLinesFrom(text, line) ==
    IF text = <<>> THEN <<line>>
    ELSE IF Head(text) = NL THEN <<line>> \o SplitLinesFrom(Tail(text), <<>>)
    ELSE SplitLinesFrom(Tail(text), Append(line, Head(text)))

SplitLines(text) == SplitLinesFrom(text, <<>>)

\* String.prototype.trim
RECURSIVE TrimStart(_)
TrimStart(text) ==
    IF text # <<>> /\ Head(text) \in Whitespace THEN TrimStart(Tail(text)) ELSE text

RECURSIVE TrimEnd(_)
TrimEnd(text) ==
    IF text # <<>> /\ text[Len(text)] \in Whitespace
    THEN TrimEnd(SubSeq(text, 1, Len(text) - 1))
    ELSE text

Trim(text) == TrimEnd(TrimStart(text))

\* what is pushed: currentChunk, or currentChunk.trim() in version 3
Pushed(version, currentChunk) ==
    IF version = "v3" THEN Trim(currentChunk) ELSE currentChunk

\* if (text.length < 6000) of the first two versions, 6000 being their limit:
\* a short text is sent in one call, without chunks
ShortPath(version, text, limit) == version \in {"v2", "v2p"} /\ Len(text) < limit

\* the version takes an onProgress callback
HasProgress(version) == version \in {"v2p", "v3"}

\* the separator of translatedChunks.join
Separator(version) == IF version = "v3" THEN <<NL, NL>> ELSE <<NL>>

\* join putting the parts in the opposite order
RECURSIVE Join_Reversed(_, _)
Join_Reversed(parts, sep) ==
    IF parts = <<>> THEN <<>>
    ELSE IF Len(parts) = 1 THEN parts[1]
    ELSE Join_Reversed(Tail(parts), sep) \o sep \o parts[1]

\* Array.prototype.join
RECURSIVE Join(_, _)
Join(parts, sep) ==
    IF parts = <<>> THEN <<>>
    ELSE IF Len(parts) = 1 THEN parts[1]
    ELSE parts[1] \o sep \o Join(Tail(parts), sep)

\* the texts a translation call resolves with: response.text || ""
Translations == {<<>>, <<"T">>, <<"U">>}

\* the error retryOperation throws when a call failed for good
TranslateRejection == [message |-> "503 Service Unavailable", contains |-> {"503"}]

\* throw new Error(`Failed to translate text to ${targetLanguage}.`) of the
\* short path
SingleError == [message |-> "Failed to translate text", contains |-> {}]

\* throw new Error(`Failed to translate part of the text (segment ${i + 1}).`)
\* of the first two versions; version 3 has no catch
ChunkError(version, error, i) ==
    IF version = "v3" THEN error
    ELSE [message |-> "Failed to translate part of the text", contains |-> {},
          segment |-> i + 1]

\* translateText(text) is called and splitTextIntoChunks(text, limit) starts
TextInit ==
    /\ \E version \in TextVersions, limit \in TextLimits, text \in InputTexts :
            texts = [pc |-> IF ShortPath(version, text, limit)
                            THEN "single" ELSE "split",
                     version |-> version, limit |-> limit,
                     text |-> text, lines |-> SplitLines(text), k |-> 0,
                     currentChunk |-> <<>>, chunks |-> <<>>,
                     i |-> 0, translated |-> <<>>,
                     sent |-> <<>>,       \* history: the chunks sent, in order
                     waiting |-> FALSE,   \* a call is pending
                     answers |-> <<>>,    \* history: chunk and text of each answer
                     emitted |-> IF ShortPath(version, text, limit)
                                    /\ version = "v2p"
                                 THEN <<10>> ELSE <<>>,
                     result |-> Null, error |-> Null]
    /\ AppIdle
    /\ SplitIdle
    /\ RetryIdle
    /\ StoreIdle
    /\ WavIdle
    /\ UiIdle

\* one turn of the loop over the lines
SplitLine ==
    /\ texts.pc = "split"
    /\ texts.k < Len(texts.lines)
    /\ LET line == texts.lines[texts.k + 1]
           full == /\ Len(texts.currentChunk) > 0
                   /\ Len(texts.currentChunk) + Len(line) > texts.limit
       IN  texts' = [texts EXCEPT
                !.chunks = IF full
                           THEN Append(@, Pushed(texts.version, texts.currentChunk))
                           ELSE @,
                !.currentChunk = (IF full THEN <<>> ELSE @) \o line \o <<NL>>,
                !.k = @ + 1]
    /\ UNCHANGED <<appVars, splitVars, retryVars, storeVars, wavVars, uiVars>>

\* after the loop: the last chunk is pushed unless blank, and the chunks returned
SplitReturn ==
    /\ texts.pc = "split"
    /\ texts.k = Len(texts.lines)
    /\ texts' = [texts EXCEPT
            !.chunks = IF Len(Trim(texts.currentChunk)) > 0
                       THEN Append(@, Pushed(texts.version, texts.currentChunk))
                       ELSE @,
            !.pc = "chunked"]
    /\ UNCHANGED <<appVars, splitVars, retryVars, storeVars, wavVars, uiVars>>

\* onProgress(p), where the version has the callback
Emit(version, emitted, p) == IF HasProgress(version) THEN Append(emitted, p) ELSE emitted

\* the head of the loop over the chunks at index i: the next call is started,
\* or the loop is over and the joined text is returned
ChunkLoopHead(t) ==
    IF t.i < Len(t.chunks)
    THEN [t EXCEPT !.pc = "translate", !.waiting = TRUE, !.sent = Append(@, t.i)]
    ELSE [t EXCEPT !.pc = "returned", !.waiting = FALSE,
                   !.result = Some(Join(t.translated, Separator(t.version)))]

\* after splitTextIntoChunks: onProgress(0) and the first turn of the loop
BeginChunks ==
    /\ texts.pc = "chunked"
    /\ texts' = ChunkLoopHead([texts EXCEPT !.emitted = Emit(texts.version, @, 0)])
    /\ UNCHANGED <<appVars, splitVars, retryVars, storeVars, wavVars, uiVars>>

\* retryOperation resolves with the translation of chunk i
ChunkResolved(text) ==
    /\ texts.pc = "translate"
    /\ texts.waiting
    /\ texts' = ChunkLoopHead(
            [texts EXCEPT !.translated = Append(@, text),
                          !.answers = Append(@, [chunk |-> texts.i, text |-> text]),
                          !.emitted = Emit(texts.version, @,
                                           Progress(texts.i, Len(texts.chunks))),
                          !.i = @ + 1])
    /\ UNCHANGED <<appVars, splitVars, retryVars, storeVars, wavVars, uiVars>>

\* retryOperation throws for chunk i
ChunkRejected ==
    /\ texts.pc = "translate"
    /\ texts.waiting
    /\ texts' = [texts EXCEPT
            !.pc = "rejected", !.waiting = FALSE,
            !.error = Some(ChunkError(texts.version, TranslateRejection, texts.i))]
    /\ UNCHANGED <<appVars, splitVars, retryVars, storeVars, wavVars, uiVars>>

\* the one call of a short text resolves
SingleResolved(text) ==
    /\ texts.pc = "single"
    /\ texts' = [texts EXCEPT !.pc = "returned", !.result = Some(text)]
    /\ UNCHANGED <<appVars, splitVars, retryVars, storeVars, wavVars, uiVars>>

\* the one call of a short text fails for good
SingleRejected ==
    /\ texts.pc = "single"
    /\ texts' = [texts EXCEPT !.pc = "rejected", !.error = Some(SingleError)]
    /\ UNCHANGED <<appVars, splitVars, retryVars, storeVars, wavVars, uiVars>>

TextNext ==
    \/ SplitLine
    \/ SplitReturn
    \/ BeginChunks
    \/ \E text \in Translations : ChunkResolved(text)
    \/ ChunkRejected
    \/ \E text \in Translations : SingleResolved(text)
    \/ SingleRejected

SpecText == TextInit /\ [][TextNext]_vars

----------------------------------------------------------------------------
(* Properties of splitTextIntoChunks, checked under SpecText *)

\* splitTextIntoChunks has returned
SplitDone == texts.pc \in {"chunked", "translate", "returned", "rejected"}
                /\ ~ShortPath(texts.version, texts.text, texts.limit)

RECURSIVE Concat(_)
Concat(parts) == IF parts = <<>> THEN <<>> ELSE Head(parts) \o Concat(Tail(parts))

Blank(text) == \A k \in 1..Len(text) : text[k] \in Whitespace

NewlinesIn(text) == Cardinality({k \in 1..Len(text) : text[k] = NL})

\* the chunks are whole lines, each with its newline, in the order of the
\* text, and all of them but for a blank end
WholeLinesInOrder(chunks, text) ==
    LET all == text \o <<NL>>
        joined == Concat(chunks)
    IN  /\ \A k \in 1..Len(chunks) :
                chunks[k] # <<>> => chunks[k][Len(chunks[k])] = NL
        /\ Len(joined) <= Len(all)
        /\ joined = SubSeq(all, 1, Len(joined))
        /\ Blank(SubSeq(all, Len(joined) + 1, Len(all)))

\* the chunk is one line, and that line is longer than limit
OneLongLine(chunk, limit) ==
    LET line == IF chunk # <<>> /\ chunk[Len(chunk)] = NL
                THEN SubSeq(chunk, 1, Len(chunk) - 1) ELSE chunk
    IN  NewlinesIn(line) = 0 /\ Len(line) > limit

\* C24: no line is split across two chunks and the chunks, concatenated in
\* order, are the lines of the text each followed by a newline, but for a
\* blank final chunk; no chunk is empty; and every chunk is at most limit
\* long unless it is a single line longer than limit.
C24_LineIntegrity ==
    SplitDone =>
        /\ WholeLinesInOrder(texts.chunks, texts.text)
        /\ \A k \in 1..Len(texts.chunks) : texts.chunks[k] # <<>>
        /\ \A k \in 1..Len(texts.chunks) :
                \/ Len(texts.chunks[k]) <= texts.limit
                \/ OneLongLine(texts.chunks[k], texts.limit)

\* what holds of the versions that do not trim: whole lines in order, no
\* empty chunk, but a chunk may be one longer than limit
UntrimmedChunks ==
    SplitDone /\ texts.version # "v3" =>
        /\ WholeLinesInOrder(texts.chunks, texts.text)
        /\ \A k \in 1..Len(texts.chunks) :
                /\ texts.chunks[k] # <<>>
                /\ \/ Len(texts.chunks[k]) <= texts.limit + 1
                   \/ OneLongLine(texts.chunks[k], texts.limit)

\* what holds of version 3, which trims: the limit is kept
TrimmedChunks ==
    SplitDone /\ texts.version = "v3" =>
        \A k \in 1..Len(texts.chunks) :
            /\ texts.chunks[k] = Trim(texts.chunks[k])
            /\ \/ Len(texts.chunks[k]) <= texts.limit
               \/ OneLongLine(texts.chunks[k], texts.limit)

\* the untrimmed version returned a chunk of two lines that is one longer
\* than limit
ChunkOverLimit ==
    /\ SplitDone
    /\ texts.version = "v2"
    /\ texts.limit = 3
    /\ texts.text = <<"a", NL, "a">>
    /\ texts.chunks = <<<<"a", NL, "a", NL>>>>

\* version 3 returned an empty chunk
EmptyChunk ==
    /\ SplitDone
    /\ texts.version = "v3"
    /\ texts.limit = 3
    /\ texts.text = <<NL, "a", "a", "a">>
    /\ texts.chunks = <<<<>>, <<"a", "a", "a">>>>

----------------------------------------------------------------------------
(* Properties of the chunk loop of translateText, checked under SpecText *)

\* the call took the chunk path and the loop has started
ChunkPath ==
    /\ texts.pc \in {"translate", "returned", "rejected"}
    /\ ~ShortPath(texts.version, texts.text, texts.limit)

\* the answers to the chunks k..n in the order of the chunks, joined by sep
RECURSIVE AnswersFrom(_, _, _)
AnswersFrom(answers, k, sep) ==
    IF k > Len(answers) THEN <<>>
    ELSE IF k = Len(answers) THEN answers[k].text
    ELSE answers[k].text \o sep \o AnswersFrom(answers, k + 1, sep)

NonDecreasing(values) ==
    \A j, k \in 1..Len(values) : j <= k => values[j] <= values[k]

\* chunk i + 1 is sent only when chunk i has resolved; the answers are joined
\* in the order of the chunks; a failure rejects the call, with no text
ChunksInOrder ==
    ChunkPath =>
        /\ \A k \in 1..Len(texts.sent) : texts.sent[k] = k - 1
        /\ \A k \in 1..Len(texts.answers) : texts.answers[k].chunk = k - 1
        /\ Len(texts.sent) = Len(texts.answers)
                + (IF texts.pc \in {"translate", "rejected"} THEN 1 ELSE 0)
        /\ Len(texts.sent) <= Len(texts.chunks)
        /\ NonDecreasing(texts.emitted)
        /\ \A k \in 1..Len(texts.emitted) : texts.emitted[k] \in 0..100
        /\ texts.pc = "returned" =>
                /\ Len(texts.answers) = Len(texts.chunks)
                /\ texts.error = Null
                /\ texts.result =
                        Some(AnswersFrom(texts.answers, 1, Separator(texts.version)))
        /\ texts.pc = "rejected" =>
                /\ texts.result = Null
                /\ texts.error # Null

BlankTextTranslated ==
    /\ ChunkPath
    /\ texts.pc = "returned"
    /\ texts.version = "v3"
    /\ texts.text = <<NL>>
    /\ texts.emitted = <<0>>
    /\ texts.result = Some(<<>>)


----------------------------------------------------------------------------
(* The archive over one run of handleFileSelect, checked under Spec *)

\* the run of frame f has had every chunk answered and the cleanup pass done
\* (locally for a transcript under 50 characters, else by its remote call)
AllSucceeded(f) ==
    /\ f.failure = Null
    /\ f.i = Len(f.chunks)
    /\ \A seg \in 0..(Len(f.chunks) - 1) :
            \E k \in 1..Len(f.answers) : f.answers[k].seg = seg
    /\ f.inFlight = {}
    /\ unifyIsLocal(f.fullTranscript) \/ UnifyCall \in f.dispatched

\* the step saves one record of frame r's file, whose transcription is the
\* text shown after the step and whose translations are empty
SavesRecordOf(r) ==
    /\ Running(frames[r])
    /\ frames'[r].pc = "done"
    /\ AllSucceeded(frames'[r])
    /\ Len(archive') > 0
    /\ archive' = saveRecord(archive, archive'[1])
    /\ archive'[1].fileName = frames[r].file[1].name
    /\ archive'[1].transcription = transcription'.text
    /\ archive'[1].translations = <<>>
    /\ \A k \in 1..Len(archive) : archive[k].id # archive'[1].id

----------------------------------------------------------------------------
(* The App component with all its handlers (App.tsx:585-964): the runs of  *)
(* handleFileSelect, the history modal, the clear button and the requests  *)
(* of handleTranslate and handleSummarize, interleaved as the event loop   *)
(* allows. One action is one turn of a handler: from its call, or from the *)
(* settling of the promise it awaits, to its next await or its end; the    *)
(* state updates of a turn are applied together, and every handler closes  *)
(* over the state of the render in which it was called. The live session   *)
(* (handleToggleLive) is not started, so isRecording stays false.          *)
(* translateText, generateSummary, transcribeAudio and                     *)
(* unifyTranscriptStyle are taken by their outcome: each resolves or       *)
(* rejects, after whatever retries it makes.                               *)

\* the number of things the user does (files selected, records loaded or
\* deleted, clear, translations and summaries asked) that are followed
MaxUiClicks == 4

\* the values of SupportedLanguage the user picks from
UiLangs == {"zh", "en"}

\* activation records of handleFileSelect, and of handleTranslate and
\* handleSummarize
UiRunIds == {1, 2}

UiReqIds == {1, 2}

\* the files the user picks from
UiFiles ==
    {[name |-> "a.mp3", size |-> 10, lastModified |-> 5000],
     [name |-> "h.ogg", size |-> 30, lastModified |-> 9000]}

\* chunks.length for each file: a.mp3 is cut in two chunks, h.ogg in one
UiChunkCount(file) == IF file.name = "a.mp3" THEN 2 ELSE 1

\* what transcribeAudio returns for chunk seg of the file: "a" and then 50
\* characters for a.mp3 (a transcript sent to the remote cleanup pass), "h"
\* for h.ogg (a transcript the cleanup pass returns as it is)
UiAnswer(file, seg) ==
    IF file.name = "h.ogg" THEN <<"h">>
    ELSE IF seg = 0 THEN <<"a">> ELSE LongText

\* response.text of the cleanup call: empty, or the cleaned transcript
UiUnifyResponses == {<<>>, <<"a", "x">>}

\* what translateText and generateSummary resolve with, named by what was asked
Translated(text, lang) == [kind |-> "translation", of |-> text, lang |-> lang]

Summarized(text, lang) == [kind |-> "summary", of |-> text, lang |-> lang]

\* { ...map, [key]: value }
SetKey(map, key, value) ==
    [x \in DOMAIN map \cup {key} |-> IF x = key THEN value ELSE map[x]]

\* record.summaries || {}
SummariesOf(record) ==
    IF "summaries" \in DOMAIN record THEN record.summaries ELSE <<>>

\* rec.summaries = newSummaries
WithSummaries(rec, summaries) ==
    [x \in DOMAIN rec \cup {"summaries"} |->
        IF x = "summaries" THEN summaries ELSE rec[x]]

\* archive.find(r => r.id === id)
RECURSIVE FindById(_, _)
FindById(list, id) ==
    IF list = <<>> THEN Null
    ELSE IF Head(list).id = id THEN Some(Head(list))
    ELSE FindById(Tail(list), id)

\* the value useState starts translation with
InitialTranslation ==
    [translations |-> <<>>, summaries |-> <<>>, isTranslating |-> FALSE,
     isSummarizing |-> FALSE, progress |-> 0, error |-> Null]

\* what localStorage holds when the page is opened: nothing, or one record
\* of an earlier visit with an English translation
UiStoredArchives ==
    {<<>>,
     <<[id |-> <<"h.ogg", 0>>, fileName |-> "h.ogg", fileSize |-> 30,
        lastModified |-> 9000, transcription |-> <<"h", NL>>,
        translations |-> SetKey(<<>>, "en", Translated(<<"h", NL>>, "en")),
        createdAt |-> 0]>>}

\* an activation record of handleFileSelect that is not in use
UiIdleRun ==
    [pc |-> "idle",
     file |-> Null,            \* the parameter file
     n |-> 0,                  \* chunks.length
     i |-> 0,                  \* the loop variable i
     fullTranscript |-> <<>>,  \* let fullTranscript
     decoded |-> FALSE,        \* history: processLargeAudioFile was called
     calls |-> 0]              \* history: the remote calls this run started

\* an activation record of handleTranslate or handleSummarize not in use
UiIdleReq ==
    [pc |-> "idle",
     kind |-> "none",
     text |-> <<>>,        \* transcription.text of the render of the call
     lang |-> "none",      \* selectedTargetLang of that render
     map |-> <<>>,         \* translation.translations (or summaries) of that render
     recordId |-> Null]    \* activeRecordId of that render

UiInit ==
    /\ \E stored \in UiStoredArchives :
        ui = [pc |-> "mounted",
              transcription |-> InitialTranscription,
              translation |-> InitialTranslation,
              activeRecordId |-> Null,
              audioFile |-> FALSE,         \* audioState.file is not null
              historyFileName |-> FALSE,   \* historyFileName is not null
              archive |-> stored,
              now |-> 0,
              clicks |-> 0,                \* history: what the user did so far
              runs |-> [r \in UiRunIds |-> UiIdleRun],
              reqs |-> [q \in UiReqIds |-> UiIdleReq]]
    /\ AppIdle /\ SplitIdle /\ RetryIdle /\ StoreIdle /\ WavIdle /\ TextIdle

\* the run is between its first await and its end
UiInFlight(f) == f.pc \in {"process", "transcribe", "unify"}

\* r is the first activation record of handleFileSelect that is free
UiFreeRun(r) ==
    /\ ~UiInFlight(ui.runs[r])
    /\ \A r2 \in UiRunIds : r2 < r => UiInFlight(ui.runs[r2])

UiFreeReq(q) ==
    /\ ui.reqs[q].pc # "pending"
    /\ \A q2 \in UiReqIds : q2 < q => ui.reqs[q2].pc = "pending"

UiCanClick == ui.clicks < MaxUiClicks

\* disabled={transcription.isTranscribing || transcription.isRecording} (line 871)
UiUploaderEnabled == ~ui.transcription.isTranscribing

\* the disabled attribute of the button (line 916) and the guards of
\* lines 726 and 750
UiRequestEnabled ==
    /\ ui.transcription.text # <<>>
    /\ ~ui.transcription.isTranscribing
    /\ ~ui.translation.isTranslating
    /\ ~ui.translation.isSummarizing

\* loadRecord leaving the translation state as it is
UiLoadRecord_KeepsTranslation(u, record) ==
    [u EXCEPT !.activeRecordId = Some(record.id),
              !.historyFileName = TRUE,
              !.transcription = [text |-> record.transcription,
                                 isTranscribing |-> FALSE,
                                 progress |-> 100, error |-> Null],
              !.audioFile = FALSE]

\* loadRecord (lines 717-723)
UiLoadRecord(u, record) ==
    [u EXCEPT !.activeRecordId = Some(record.id),
              !.historyFileName = TRUE,
              !.transcription = [text |-> record.transcription,
                                 isTranscribing |-> FALSE,
                                 progress |-> 100, error |-> Null],
              !.translation = [translations |-> record.translations,
                               summaries |-> SummariesOf(record),
                               isTranslating |-> FALSE,
                               isSummarizing |-> FALSE,
                               progress |-> 100, error |-> Null],
              !.audioFile = FALSE]

\* the catch block of handleFileSelect (line 713)
UiAbort(u, r) ==
    [u EXCEPT !.transcription = [@ EXCEPT !.isTranscribing = FALSE,
                                          !.error = Some("failed")],
              !.runs[r] = [@ EXCEPT !.pc = "aborted"]]

\* lines 697-711, after unifyTranscriptStyle returned unified; Date.now() is
\* taken a millisecond later at each completion
UiComplete(u, r, unified) ==
    LET t == u.now + 1
        record == NewRecord(u.runs[r].file[1], unified, t)
    IN  [u EXCEPT !.transcription = [@ EXCEPT !.text = unified,
                                              !.isTranscribing = FALSE,
                                              !.progress = 100],
                  !.archive = saveRecord(@, record),
                  !.activeRecordId = Some(record.id),
                  !.now = t,
                  !.runs[r] = [@ EXCEPT !.pc = "done"]]

\* the head of the for loop and, past it, the call of unifyTranscriptStyle
\* (lines 686-696)
UiContinueLoop(u, r) ==
    LET f == u.runs[r]
    IN  IF f.i < f.n
        THEN [u EXCEPT !.runs[r] = [@ EXCEPT !.pc = "transcribe", !.calls = @ + 1]]
        ELSE IF unifyIsLocal(f.fullTranscript)
        THEN UiComplete(u, r, f.fullTranscript)
        ELSE [u EXCEPT !.runs[r] = [@ EXCEPT !.pc = "unify", !.calls = @ + 1]]

\* every action of this section leaves the variables of the others alone
UiFrame == UNCHANGED <<appVars, splitVars, retryVars, storeVars, wavVars, textVars>>

\* handleFileSelect, lines 670-675: the file has an archived record
UiSelectArchivedFile(r, file) ==
    /\ ui.pc = "mounted"
    /\ UiCanClick
    /\ UiUploaderEnabled
    /\ UiFreeRun(r)
    /\ findRecordForFile(ui.archive, file) # Null
    /\ ui' = [UiLoadRecord(ui, findRecordForFile(ui.archive, file)[1])
                EXCEPT !.clicks = @ + 1,
                       !.runs[r] = [UiIdleRun EXCEPT !.pc = "loaded",
                                                     !.file = Some(file)]]
    /\ UiFrame

\* handleFileSelect, lines 670-684, up to the await of processLargeAudioFile
UiSelectNewFile(r, file) ==
    /\ ui.pc = "mounted"
    /\ UiCanClick
    /\ UiUploaderEnabled
    /\ UiFreeRun(r)
    /\ findRecordForFile(ui.archive, file) = Null
    /\ ui' = [ui EXCEPT !.clicks = @ + 1,
                        !.audioFile = TRUE,
                        !.activeRecordId = Null,
                        !.historyFileName = FALSE,
                        !.transcription = [text |-> <<>>, isTranscribing |-> TRUE,
                                           progress |-> 0, error |-> Null],
                        !.translation = InitialTranslation,
                        !.runs[r] = [UiIdleRun EXCEPT !.pc = "process",
                                                      !.file = Some(file),
                                                      !.decoded = TRUE]]
    /\ UiFrame

\* processLargeAudioFile resolves with the chunks; the loop starts (lines 684-687)
UiProcessResolved(r) ==
    /\ ui.pc = "mounted"
    /\ ui.runs[r].pc = "process"
    /\ ui' = UiContinueLoop(
                [ui EXCEPT !.runs[r].n = UiChunkCount(ui.runs[r].file[1])], r)
    /\ UiFrame

\* processLargeAudioFile rejects (line 712)
UiProcessRejected(r) ==
    /\ ui.pc = "mounted"
    /\ ui.runs[r].pc = "process"
    /\ ui' = UiAbort(ui, r)
    /\ UiFrame

\* transcribeAudio resolves for chunk i (lines 687-693, then the loop head)
UiSegmentResolved(r) ==
    LET f == ui.runs[r]
        full == AppendPart(f.fullTranscript, UiAnswer(f.file[1], f.i))
    IN  /\ ui.pc = "mounted"
        /\ f.pc = "transcribe"
        /\ ui' = UiContinueLoop(
                    [ui EXCEPT !.transcription =
                                    [@ EXCEPT !.text = full,
                                              !.progress = Progress(f.i, f.n)],
                               !.runs[r] = [@ EXCEPT !.fullTranscript = full,
                                                     !.i = @ + 1]], r)
        /\ UiFrame

\* transcribeAudio rejects
UiSegmentRejected(r) ==
    /\ ui.pc = "mounted"
    /\ ui.runs[r].pc = "transcribe"
    /\ ui' = UiAbort(ui, r)
    /\ UiFrame

\* unifyTranscriptStyle resolves with response.text = text
UiUnifyResolved(r, text) ==
    /\ ui.pc = "mounted"
    /\ ui.runs[r].pc = "unify"
    /\ ui' = UiComplete(ui, r, unifyResult(text, ui.runs[r].fullTranscript))
    /\ UiFrame

\* unifyTranscriptStyle rejects
UiUnifyRejected(r) ==
    /\ ui.pc = "mounted"
    /\ ui.runs[r].pc = "unify"
    /\ ui' = UiAbort(ui, r)
    /\ UiFrame

\* the History button, then onSelect of the HistoryModal on the k-th record
\* (lines 857, 960); history is the archive, set after every save and delete
UiLoadHistory(k) ==
    /\ ui.pc = "mounted"
    /\ UiCanClick
    /\ k \in 1..Len(ui.archive)
    /\ ui' = [UiLoadRecord(ui, ui.archive[k]) EXCEPT !.clicks = @ + 1]
    /\ UiFrame

\* onDelete of the HistoryModal on the k-th record (line 960)
UiDeleteRecord(k) ==
    /\ ui.pc = "mounted"
    /\ UiCanClick
    /\ k \in 1..Len(ui.archive)
    /\ ui' = [ui EXCEPT !.clicks = @ + 1,
                        !.archive = deleteRecord(@, ui.archive[k].id),
                        !.activeRecordId =
                            IF @ = Some(ui.archive[k].id) THEN Null ELSE @]
    /\ UiFrame

\* the X button next to the file name (line 888)
UiClear ==
    /\ ui.pc = "mounted"
    /\ UiCanClick
    /\ ui.audioFile \/ ui.historyFileName
    /\ ui' = [ui EXCEPT !.clicks = @ + 1,
                        !.audioFile = FALSE,
                        !.transcription = InitialTranscription,
                        !.translation = InitialTranslation]
    /\ UiFrame

\* handleTranslate up to the await of translateText (lines 725-728)
UiTranslate(q, lang) ==
    /\ ui.pc = "mounted"
    /\ UiCanClick
    /\ UiRequestEnabled
    /\ UiFreeReq(q)
    /\ ui' = [ui EXCEPT !.clicks = @ + 1,
                        !.translation = [@ EXCEPT !.isTranslating = TRUE,
                                                  !.progress = 0,
                                                  !.error = Null],
                        !.reqs[q] = [pc |-> "pending", kind |-> "translate",
                                     text |-> ui.transcription.text,
                                     lang |-> lang,
                                     map |-> ui.translation.translations,
                                     recordId |-> ui.activeRecordId]]
    /\ UiFrame

\* handleSummarize up to the await of generateSummary (lines 749-752)
UiSummarize(q, lang) ==
    /\ ui.pc = "mounted"
    /\ UiCanClick
    /\ UiRequestEnabled
    /\ UiFreeReq(q)
    /\ ui' = [ui EXCEPT !.clicks = @ + 1,
                        !.translation = [@ EXCEPT !.isSummarizing = TRUE,
                                                  !.progress = 0,
                                                  !.error = Null],
                        !.reqs[q] = [pc |-> "pending", kind |-> "summarize",
                                     text |-> ui.transcription.text,
                                     lang |-> lang,
                                     map |-> ui.translation.summaries,
                                     recordId |-> ui.activeRecordId]]
    /\ UiFrame

\* translateText resolves (lines 731-743)
UiTranslateResolved(q) ==
    LET f == ui.reqs[q]
        newTranslations == SetKey(f.map, f.lang, Translated(f.text, f.lang))
        rec == FindById(ui.archive, f.recordId[1])
    IN  /\ ui.pc = "mounted"
        /\ f.pc = "pending"
        /\ f.kind = "translate"
        /\ ui' = [ui EXCEPT
                    !.translation = [@ EXCEPT !.translations = newTranslations,
                                              !.isTranslating = FALSE,
                                              !.progress = 100],
                    !.archive =
                        IF f.recordId = Null \/ rec = Null THEN @
                        ELSE saveRecord(@, [rec[1] EXCEPT
                                                !.translations = newTranslations]),
                    !.reqs[q] = [UiIdleReq EXCEPT !.pc = "done"]]
        /\ UiFrame

\* generateSummary resolves (lines 754-766)
UiSummarizeResolved(q) ==
    LET f == ui.reqs[q]
        newSummaries == SetKey(f.map, f.lang, Summarized(f.text, f.lang))
        rec == FindById(ui.archive, f.recordId[1])
    IN  /\ ui.pc = "mounted"
        /\ f.pc = "pending"
        /\ f.kind = "summarize"
        /\ ui' = [ui EXCEPT
                    !.translation = [@ EXCEPT !.summaries = newSummaries,
                                              !.isSummarizing = FALSE,
                                              !.progress = 100],
                    !.archive =
                        IF f.recordId = Null \/ rec = Null THEN @
                        ELSE saveRecord(@, WithSummaries(rec[1], newSummaries)),
                    !.reqs[q] = [UiIdleReq EXCEPT !.pc = "done"]]
        /\ UiFrame

\* translateText or generateSummary rejects (lines 744-746, 767-769)
UiRequestRejected(q) ==
    LET f == ui.reqs[q]
    IN  /\ ui.pc = "mounted"
        /\ f.pc = "pending"
        /\ ui' = [ui EXCEPT
                    !.translation =
                        IF f.kind = "translate"
                        THEN [@ EXCEPT !.isTranslating = FALSE,
                                       !.error = Some("failed")]
                        ELSE [@ EXCEPT !.isSummarizing = FALSE,
                                       !.error = Some("failed")],
                    !.reqs[q] = [UiIdleReq EXCEPT !.pc = "failed"]]
        /\ UiFrame

UiNext ==
    \/ \E r \in UiRunIds, file \in UiFiles : UiSelectArchivedFile(r, file)
    \/ \E r \in UiRunIds, file \in UiFiles : UiSelectNewFile(r, file)
    \/ \E r \in UiRunIds : UiProcessResolved(r)
    \/ \E r \in UiRunIds : UiProcessRejected(r)
    \/ \E r \in UiRunIds : UiSegmentResolved(r)
    \/ \E r \in UiRunIds : UiSegmentRejected(r)
    \/ \E r \in UiRunIds, text \in UiUnifyResponses : UiUnifyResolved(r, text)
    \/ \E r \in UiRunIds : UiUnifyRejected(r)
    \/ \E k \in 1..MAX_RECORDS : UiLoadHistory(k)
    \/ \E k \in 1..MAX_RECORDS : UiDeleteRecord(k)
    \/ UiClear
    \/ \E q \in UiReqIds, lang \in UiLangs : UiTranslate(q, lang)
    \/ \E q \in UiReqIds, lang \in UiLangs : UiSummarize(q, lang)
    \/ \E q \in UiReqIds : UiTranslateResolved(q)
    \/ \E q \in UiReqIds : UiSummarizeResolved(q)
    \/ \E q \in UiReqIds : UiRequestRejected(q)

SpecUi == UiInit /\ [][UiNext]_vars


----------------------------------------------------------------------------
(* Properties of the App component, checked under SpecUi *)

\* handleFileSelect(file) is called with activation record r
UiSelects(r, file) == UiSelectArchivedFile(r, file) \/ UiSelectNewFile(r, file)

\* the call handleFileSelect(file) that found record: nothing is decoded, no
\* remote call is made, nothing is saved, no other run is touched, and what
\* is shown is the record
ShortCircuited(r, record) ==
    /\ ui'.archive = ui.archive
    /\ ~UiInFlight(ui'.runs[r])
    /\ ~ui'.runs[r].decoded
    /\ ui'.runs[r].calls = 0
    /\ \A r2 \in UiRunIds \ {r} : ui'.runs[r2] = ui.runs[r2]
    /\ ui'.reqs = ui.reqs
    /\ ui'.transcription.text = record.transcription
    /\ ~ui'.transcription.isTranscribing
    /\ ui'.translation.translations = record.translations
    /\ ui'.translation.summaries = SummariesOf(record)
    /\ ui'.activeRecordId = Some(record.id)

\* C26: when handleFileSelect is called with a file that findRecordForFile
\* finds in the archive, the call returns without decoding, without a remote
\* call and without saving; the archive is unchanged, and the transcript,
\* translations, summaries and activeRecordId shown are those of the record
\* found, with isTranscribing false. Such a call never becomes a run.
C26_ShortCircuit ==
    /\ [][\A r \in UiRunIds, file \in UiFiles :
            UiSelects(r, file) /\ findRecordForFile(ui.archive, file) # Null =>
                ShortCircuited(r, findRecordForFile(ui.archive, file)[1])]_vars
    /\ [](\A r \in UiRunIds :
            ui.runs[r].pc = "loaded" =>
                ~ui.runs[r].decoded /\ ui.runs[r].calls = 0)

\* h.ogg selected when its record holds a translation and a summary
C26_Witness ==
    \E r \in UiRunIds :
        /\ ui.runs[r].pc = "loaded"
        /\ ui.runs[r].file = Some([name |-> "h.ogg", size |-> 30,
                                   lastModified |-> 9000])
        /\ ui.activeRecordId = Some(<<"h.ogg", 0>>)
        /\ ui.transcription.text = <<"h", NL>>
        /\ DOMAIN ui.translation.translations = {"en"}
        /\ DOMAIN ui.translation.summaries = {"zh"}
        /\ Len(ui.archive) = 1
        /\ ui.archive[1].translations = ui.translation.translations
        /\ SummariesOf(ui.archive[1]) = ui.translation.summaries


\* the runs of handleFileSelect between their first await and their end
UiRunsInFlight == {r \in UiRunIds : UiInFlight(ui.runs[r])}

\* C28: at most one run of handleFileSelect is in flight: whatever the user
\* does while a run has not ended (loading a record from the history,
\* clearing the file, selecting a file), no second run starts.
C28_OneRunInFlight == Cardinality(UiRunsInFlight) <= 1

\* the record activeRecordId names, if the archive has it
UiActiveRecord ==
    IF ui.activeRecordId = Null THEN Null
    ELSE FindById(ui.archive, ui.activeRecordId[1])

\* no run is in flight and activeRecordId names an archived record: the
\* text shown is the transcription of that record
DisplayedIsActiveRecord ==
    UiRunsInFlight = {} /\ UiActiveRecord # Null =>
        ui.transcription.text = UiActiveRecord[1].transcription

\* the step is a turn of the run r
UiRunTurn(r) == UiInFlight(ui.runs[r]) /\ ui'.runs[r] # ui.runs[r]

\* a record is shown as loaded: it is the active one and its text is shown
UiRecordShown ==
    /\ UiActiveRecord # Null
    /\ ui.transcription.text = UiActiveRecord[1].transcription

\* a turn of a run taken while a record is shown leaves its text and
\* activeRecordId as they are
RunKeepsLoadedRecord ==
    \A r \in UiRunIds :
        UiRunTurn(r) /\ UiRecordShown =>
            /\ ui'.transcription.text = ui.transcription.text
            /\ ui'.activeRecordId = ui.activeRecordId

\* C29: whenever no run is in flight and activeRecordId names a record of
\* the archive, the transcript shown is that record's transcription; and when
\* a record was loaded while a run was in flight, the later segment and
\* completion updates of the run change neither the text shown nor
\* activeRecordId.
C29_LoadedRecordKept ==
    /\ []DisplayedIsActiveRecord
    /\ [][RunKeepsLoadedRecord]_vars

\* each translation and summary of an archived record was made from the
\* transcription of that record
OwnTranscription ==
    \A k \in 1..Len(ui.archive) :
        LET rec == ui.archive[k]
        IN  /\ \A l \in DOMAIN rec.translations :
                    rec.translations[l].of = rec.transcription
            /\ \A l \in DOMAIN SummariesOf(rec) :
                    SummariesOf(rec)[l].of = rec.transcription

\* map new has every entry of map old, but for the key lang
KeepsOthers(old, new, lang) ==
    \A l \in DOMAIN old \ {lang} : l \in DOMAIN new /\ new[l] = old[l]

\* the step in which request q resolves stores into the record that was
\* active when q started and into no other, and keeps that record's entries
\* for the other languages
StoresIntoOwnRecord(q) ==
    LET f == ui.reqs[q]
    IN  \A k \in 1..Len(ui.archive) :
            LET old == ui.archive[k]
                new == FindById(ui'.archive, old.id)
            IN  /\ new # Null
                /\ Some(old.id) # f.recordId => new[1] = old
                /\ KeepsOthers(old.translations, new[1].translations, f.lang)
                /\ KeepsOthers(SummariesOf(old), SummariesOf(new[1]), f.lang)

\* C30: every translation and summary stored in a record was made from that
\* record's transcription, and a result is stored into the record that was
\* active when the request started, leaving the entries of the other
\* languages and the other records as they are, however the completions of
\* handleTranslate and handleSummarize interleave with loading records.
C30_OwnRecordOnly ==
    /\ []OwnTranscription
    /\ [][\A q \in UiReqIds :
            UiTranslateResolved(q) \/ UiSummarizeResolved(q) =>
                StoresIntoOwnRecord(q)]_vars

====
